---- MODULE Spec2Model ----
(***************************************************************************)
(* Transitive delegation credentials: the accumulator-based scheme         *)
(* (OurIssuer / OurVerifier), its credential data model, the presentation  *)
(* envelope and the batch witness verifier.                                *)
(*                                                                         *)
(* Cryptography is idealised.  A scalar obtained by hashing a text is the  *)
(* record [hash |-> text] (SHA-256 is taken to be collision free).  An     *)
(* accumulator is the pair of the key it was built under and the set of    *)
(* scalars accumulated; a membership witness is the triple of key,         *)
(* accumulated set and element it was computed for: a witness verifies     *)
(* exactly when all three agree with what the verifier holds.  A key pair  *)
(* is named by the id of the delegator that generated it.                  *)
(***************************************************************************)
EXTENDS Integers, Sequences, FiniteSets, TLC

VARIABLES accumulator_dlt, verification_dlt, now, vc, jws, last,
          batch, threads, joined, batch_pc, batch_result,
          encryption_dlt, manager, held, raw_vc

vars == <<accumulator_dlt, verification_dlt, now, vc, jws, last,
          batch, threads, joined, batch_pc, batch_result,
          encryption_dlt, manager, held, raw_vc>>

protocol_vars == <<accumulator_dlt, verification_dlt, now, vc, jws, last>>
batch_vars == <<batch, threads, joined, batch_pc, batch_result>>
pjv_vars == <<encryption_dlt>>
manager_vars == <<manager, held>>
parse_vars == <<raw_vc>>

(***************************************************************************)
(* Bounds of the model.                                                    *)
(***************************************************************************)
\* the clock stops here
MaxNow == 3
\* longest validity period an issuance is called with
MaxValidity == 3
\* longest hierarchy a credential is issued with
MaxDepth == 2
\* last position of a presentation's witness lists that is altered
MaxDisclosed == 2

\* the validity periods an issuance is called with: none, the shortest, the
\* longest
ValidityPeriods == {0, 1, MaxValidity}

Ids == {"d0", "d1"}

\* the permission lists the owner of the resource grants from
RootPermLists == { <<>>,
                   <<"p0">>,
                   <<"p0", "p1">>,
                   <<"p0", "p1", "p2">>,
                   <<"p0", "p0">> }

\* the permission lists a delegator asks to pass on
PermLists == { <<>>,
               <<"p0">>,
               <<"p0", "p1">>,
               <<"p0", "p1", "p2">>,
               <<"p0", "p1", "p2", "p3">>,
               <<"p0", "p0">> }

DisclosedLists == { <<"p0">>, <<"p0", "p1">>, <<"p3">> }

None == <<>>
Some(x) == <<x>>

(***************************************************************************)
(* Timestamps are carried as decimal text.                                 *)
(***************************************************************************)
Digits == <<"0", "1", "2", "3", "4", "5", "6", "7", "8", "9">>

RECURSIVE to_string(_)
to_string(n) ==
    IF n < 10 THEN Digits[n + 1]
    ELSE to_string(n \div 10) \o Digits[(n % 10) + 1]

\* the largest number a timestamp of the model can carry
MaxTime == MaxNow + MaxValidity

\* u128::from_str: the number whose decimal text is s, or -1 (a parse error)
from_str(s) ==
    IF \E n \in 0..MaxTime : to_string(n) = s
    THEN CHOOSE n \in 0..MaxTime : to_string(n) = s
    ELSE -1

(***************************************************************************)
(* Scalar coding.                                                          *)
(***************************************************************************)
convert_string_to_scalar(value) == [hash |-> value]

\* the base64url text of the compressed encoding of a scalar
encode_scalar(scalar) == "#" \o scalar.hash

Texts == Ids \cup {"p0", "p1", "p2", "p3"} \cup {to_string(n) : n \in 0..MaxTime}

\* AccumulatorUtils::deserialize at the scalar type: only the text of an
\* encoded scalar decodes
deserialize_scalar(encoded_element) ==
    LET hit == {s \in Texts : encode_scalar(convert_string_to_scalar(s)) = encoded_element}
    IN  IF hit = {} THEN [ok |-> FALSE, v |-> convert_string_to_scalar("")]
        ELSE [ok |-> TRUE, v |-> convert_string_to_scalar(CHOOSE s \in hit : TRUE)]

\* AccumulatorUtils::serialize / deserialize of accumulators and witnesses:
\* the text is the object tagged by what it encodes; "bad" is text that
\* does not decode
serialize(kind, element) == [enc |-> kind, obj |-> element]

deserialize(kind, encoded_element) ==
    [ok |-> encoded_element.enc = kind, v |-> encoded_element.obj]

(***************************************************************************)
(* Accumulator manager: owned by one issuance, keyed by the issuer's       *)
(* secret key.                                                             *)
(***************************************************************************)
new_manager(secret_key) == [secret_key |-> secret_key, state |-> {}]

\* InMemoryState: the exact set of the scalars accumulated
in_memory_has(state, element) == element \in state
in_memory_add(state, element) == state \cup {element}
in_memory_remove(state, element) == state \ {element}

RECURSIVE in_memory_add_each(_, _)
in_memory_add_each(state, elements) ==
    IF elements = <<>> THEN state
    ELSE in_memory_add_each(in_memory_add(state, elements[1]),
                            SubSeq(elements, 2, Len(elements)))

\* fails when the element is already accumulated
add_element(am, element) ==
    IF in_memory_has(am.state, element)
    THEN [ok |-> FALSE, am |-> am]
    ELSE [ok |-> TRUE, am |-> [am EXCEPT !.state = in_memory_add(@, element)]]

\* add_elements that adds the elements one after another and stops at the
\* first that is already accumulated, keeping those before it
RECURSIVE add_elements_one_by_one(_, _)
add_elements_one_by_one(am, elements) ==
    IF elements = <<>> THEN [ok |-> TRUE, am |-> am]
    ELSE LET r == add_element(am, elements[1])
         IN  IF ~r.ok THEN r
             ELSE add_elements_one_by_one(r.am, SubSeq(elements, 2, Len(elements)))

\* fails, adding nothing, when some element is already accumulated
add_elements(am, elements) ==
    IF \E i \in 1..Len(elements) : in_memory_has(am.state, elements[i])
    THEN [ok |-> FALSE, am |-> am]
    ELSE [ok |-> TRUE,
          am |-> [am EXCEPT !.state = in_memory_add_each(@, elements)]]

\* fails when the element is not accumulated
remove_element(am, element) ==
    IF ~in_memory_has(am.state, element)
    THEN [ok |-> FALSE, am |-> am]
    ELSE [ok |-> TRUE, am |-> [am EXCEPT !.state = in_memory_remove(@, element)]]

clone_accumulator(am) ==
    serialize("acc", [key |-> am.secret_key, state |-> am.state])

compute_witness(am, element) ==
    serialize("wit", [key |-> am.secret_key, state |-> am.state, x |-> element])

compute_witnesses(am, elements) ==
    [i \in 1..Len(elements) |-> compute_witness(am, elements[i])]

\* PositiveAccumulator::verify_membership under a public key
verify_membership(accumulator_value, element_value, witness_value, public_key) ==
    /\ accumulator_value.key = public_key
    /\ witness_value.key = public_key
    /\ witness_value.state = accumulator_value.state
    /\ witness_value.x = element_value

(***************************************************************************)
(* Credential data model.                                                  *)
(***************************************************************************)
OurDelegator(id, delegatee_id, iat, exp, accumulator_value, metadata_witnesses, permission_witnesses) ==
    [id |-> id, delegatee_id |-> delegatee_id, iat |-> iat, exp |-> exp,
     accumulator_value |-> accumulator_value,
     metadata_witnesses |-> metadata_witnesses,
     permission_witnesses |-> permission_witnesses]

OurDelegationCredential(delegatee_id, accumulator_value, iat, exp, permissions, metadata_witnesses, permission_witnesses, hierarchy) ==
    [delegatee_id |-> delegatee_id, accumulator_value |-> accumulator_value,
     iat |-> iat, exp |-> exp, permissions |-> permissions,
     metadata_witnesses |-> metadata_witnesses,
     permission_witnesses |-> permission_witnesses, hierarchy |-> hierarchy]

VerifiableCredential(issuer, credential) ==
    [issuer |-> issuer, credential |-> credential]

contains(seq, x) == \E i \in 1..Len(seq) : seq[i] = x

\* Vec::remove at the 0-based index i; the caller checks i < len
remove(seq, i) == SubSeq(seq, 1, i) \o SubSeq(seq, i + 2, Len(seq))

\* the 0-based indices, ascending, of the entries of list that are not in keep
RECURSIVE removable_from(_, _, _)
removable_from(list, keep, i) ==
    IF i >= Len(list) THEN <<>>
    ELSE (IF contains(keep, list[i + 1]) THEN <<>> ELSE <<i>>)
         \o removable_from(list, keep, i + 1)

\* Vec::remove of the 0-based indices, last first, from the permissions, their
\* witnesses and the permission witnesses of every hierarchy entry, in lock
\* step; Vec::remove panics on an index past the end
RECURSIVE remove_lockstep(_, _)
remove_lockstep(st, indices) ==
    IF indices = <<>> \/ st.panicked THEN st
    ELSE LET i == indices[Len(indices)]
             rest == SubSeq(indices, 1, Len(indices) - 1)
         IN  IF \/ i >= Len(st.permissions)
                \/ i >= Len(st.permission_witnesses)
                \/ \E k \in 1..Len(st.hierarchy) :
                       i >= Len(st.hierarchy[k].permission_witnesses)
             THEN [st EXCEPT !.panicked = TRUE]
             ELSE remove_lockstep(
                      [permissions |-> remove(st.permissions, i),
                       permission_witnesses |-> remove(st.permission_witnesses, i),
                       hierarchy |-> [k \in 1..Len(st.hierarchy) |->
                           [st.hierarchy[k] EXCEPT
                               !.permission_witnesses = remove(@, i)]],
                       panicked |-> FALSE],
                      rest)

(***************************************************************************)
(* OurIssuer::issue_delegation_verifiable_credential, called on the issuer *)
(* self at clock reading t.  The result is the error kind or "Ok" and the  *)
(* credential returned.                                                    *)
(***************************************************************************)
IssueErr(kind) == [res |-> kind, vc |-> None]

\* the lowest expiration among the delegators of a hierarchy and numeric_exp;
\* -1 when a delegator's exp does not parse
RECURSIVE lowest_exp(_, _, _)
lowest_exp(numeric_exp, hierarchy, k) ==
    IF k > Len(hierarchy) THEN numeric_exp
    ELSE LET delegator_exp == from_str(hierarchy[k].exp)
         IN  IF delegator_exp = -1 THEN -1
             ELSE lowest_exp(IF delegator_exp < numeric_exp
                             THEN delegator_exp ELSE numeric_exp,
                             hierarchy, k + 1)

\* issue_with_parent without the test that every requested permission is one
\* of the parent's
issue_with_parent_unchecked(issuer, issuer_vc, delegatee_id, iat, exp, permissions, accumulator_value, metadata_witnesses, permission_witnesses) ==
    LET issuer_dc == issuer_vc.credential
        issuer_permissions_size == Len(issuer_dc.permissions)
    IN  IF issuer_permissions_size # Len(issuer_dc.permission_witnesses)
        THEN IssueErr("CardinalityMismatch")
        ELSE IF \E k \in 1..Len(issuer_dc.hierarchy) :
                    issuer_permissions_size # Len(issuer_dc.hierarchy[k].permission_witnesses)
        THEN IssueErr("CardinalityMismatch")
        ELSE IF Len(permissions) > issuer_permissions_size
        THEN IssueErr("CannotEscalate")
        ELSE
        LET start == [permissions |-> issuer_dc.permissions,
                      permission_witnesses |-> issuer_dc.permission_witnesses,
                      hierarchy |-> issuer_dc.hierarchy,
                      panicked |-> FALSE]
            pruned == IF Len(permissions) < issuer_permissions_size
                      THEN remove_lockstep(start,
                               removable_from(issuer_dc.permissions, permissions, 0))
                      ELSE start
        IN  [res |-> "Ok",
             vc |-> Some(VerifiableCredential(issuer,
                      OurDelegationCredential(delegatee_id, accumulator_value,
                          iat, exp, permissions, metadata_witnesses,
                          permission_witnesses,
                          Append(pruned.hierarchy,
                              OurDelegator(issuer_vc.issuer, issuer_dc.delegatee_id,
                                  issuer_dc.iat, issuer_dc.exp,
                                  issuer_dc.accumulator_value,
                                  issuer_dc.metadata_witnesses,
                                  pruned.permission_witnesses)))))]

\* issue_with_parent with the test of the sizes made before the test that
\* every requested permission is one of the parent's
issue_with_parent_size_first(issuer, issuer_vc, delegatee_id, iat, exp, permissions, accumulator_value, metadata_witnesses, permission_witnesses) ==
    IF Len(permissions) > Len(issuer_vc.credential.permissions)
    THEN IssueErr("CannotEscalate")
    ELSE IF \E i \in 1..Len(permissions) :
                ~contains(issuer_vc.credential.permissions, permissions[i])
    THEN IssueErr("PermissionNotGranted")
    ELSE issue_with_parent_unchecked(issuer, issuer_vc, delegatee_id, iat, exp,
             permissions, accumulator_value, metadata_witnesses,
             permission_witnesses)

\* issue_with_parent without the tests of the cardinalities of the parent
issue_with_parent_uncounted(issuer, issuer_vc, delegatee_id, iat, exp, permissions, accumulator_value, metadata_witnesses, permission_witnesses) ==
    LET issuer_dc == issuer_vc.credential
    IN  IF \E i \in 1..Len(permissions) : ~contains(issuer_dc.permissions, permissions[i])
        THEN IssueErr("PermissionNotGranted")
        ELSE IF Len(permissions) > Len(issuer_dc.permissions)
        THEN IssueErr("CannotEscalate")
        ELSE
        LET start == [permissions |-> issuer_dc.permissions,
                      permission_witnesses |-> issuer_dc.permission_witnesses,
                      hierarchy |-> issuer_dc.hierarchy,
                      panicked |-> FALSE]
            pruned == IF Len(permissions) < Len(issuer_dc.permissions)
                      THEN remove_lockstep(start,
                               removable_from(issuer_dc.permissions, permissions, 0))
                      ELSE start
        IN  IF pruned.panicked THEN IssueErr("Panic")
            ELSE [res |-> "Ok",
                  vc |-> Some(VerifiableCredential(issuer,
                           OurDelegationCredential(delegatee_id, accumulator_value,
                               iat, exp, permissions, metadata_witnesses,
                               permission_witnesses,
                               Append(pruned.hierarchy,
                                   OurDelegator(issuer_vc.issuer, issuer_dc.delegatee_id,
                                       issuer_dc.iat, issuer_dc.exp,
                                       issuer_dc.accumulator_value,
                                       issuer_dc.metadata_witnesses,
                                       pruned.permission_witnesses)))))]

\* issue_with_parent with the entry of the parent put before the entries of
\* the parent's hierarchy
issue_with_parent_prepended(issuer, issuer_vc, delegatee_id, iat, exp, permissions, accumulator_value, metadata_witnesses, permission_witnesses) ==
    LET r == issue_with_parent_size_first(issuer, issuer_vc, delegatee_id, iat, exp,
                 permissions, accumulator_value, metadata_witnesses,
                 permission_witnesses)
    IN  IF r.res # "Ok" THEN r
        ELSE LET hierarchy == r.vc[1].credential.hierarchy
                 n == Len(hierarchy)
             IN  [res |-> "Ok",
                  vc |-> Some(VerifiableCredential(issuer,
                           [r.vc[1].credential EXCEPT !.hierarchy =
                               <<hierarchy[n]>> \o SubSeq(hierarchy, 1, n - 1)]))]

\* the branch of the issuance that has a parent credential
issue_with_parent(issuer, issuer_vc, delegatee_id, iat, exp, permissions, accumulator_value, metadata_witnesses, permission_witnesses) ==
    LET issuer_dc == issuer_vc.credential
        issuer_permissions == issuer_dc.permissions
        issuer_permission_witnesses == issuer_dc.permission_witnesses
        issuer_hierarchy == issuer_dc.hierarchy
        issuer_permissions_size == Len(issuer_permissions)
        permissions_size == Len(permissions)
    IN  IF \E i \in 1..Len(permissions) : ~contains(issuer_permissions, permissions[i])
        THEN IssueErr("PermissionNotGranted")
        ELSE IF issuer_permissions_size # Len(issuer_permission_witnesses)
        THEN IssueErr("CardinalityMismatch")
        ELSE IF \E k \in 1..Len(issuer_hierarchy) :
                    issuer_permissions_size # Len(issuer_hierarchy[k].permission_witnesses)
        THEN IssueErr("CardinalityMismatch")
        ELSE IF permissions_size > issuer_permissions_size
        THEN IssueErr("CannotEscalate")
        ELSE
        LET start == [permissions |-> issuer_permissions,
                      permission_witnesses |-> issuer_permission_witnesses,
                      hierarchy |-> issuer_hierarchy,
                      panicked |-> FALSE]
            pruned == IF permissions_size < issuer_permissions_size
                      THEN remove_lockstep(start,
                               removable_from(issuer_permissions, permissions, 0))
                      ELSE start
            issuer_delegator == OurDelegator(issuer_vc.issuer,
                                    issuer_dc.delegatee_id, issuer_dc.iat,
                                    issuer_dc.exp, issuer_dc.accumulator_value,
                                    issuer_dc.metadata_witnesses,
                                    pruned.permission_witnesses)
            result_dc == OurDelegationCredential(delegatee_id, accumulator_value,
                             iat, exp, permissions, metadata_witnesses,
                             permission_witnesses,
                             Append(pruned.hierarchy, issuer_delegator))
        IN  [res |-> "Ok", vc |-> Some(VerifiableCredential(issuer, result_dc))]

issue_delegation_verifiable_credential(self, delegatee_id, validity_period, permissions, optional_issuer_vc, t) ==
    IF permissions = <<>> THEN IssueErr("EmptyPermissions")
    ELSE
    LET numeric_iat == t
        numeric_exp == IF optional_issuer_vc = None
                       THEN numeric_iat + validity_period
                       ELSE lowest_exp(numeric_iat + validity_period,
                                optional_issuer_vc[1].credential.hierarchy, 1)
    IN  IF numeric_exp = -1 THEN IssueErr("ParseError")
        ELSE
        LET iat == to_string(numeric_iat)
            exp == to_string(numeric_exp)
            permission_scalars == [i \in 1..Len(permissions) |->
                                      convert_string_to_scalar(permissions[i])]
            delegatee_id_scalar == convert_string_to_scalar(delegatee_id)
            iat_scalar == convert_string_to_scalar(iat)
            exp_scalar == convert_string_to_scalar(exp)
            a1 == add_elements(new_manager(self), permission_scalars)
            a2 == add_element(a1.am, delegatee_id_scalar)
            a3 == add_element(a2.am, iat_scalar)
            a4 == add_element(a3.am, exp_scalar)
        IN  IF ~(a1.ok /\ a2.ok /\ a3.ok /\ a4.ok) THEN IssueErr("ElementPresent")
            ELSE
            LET am == a4.am
                accumulator_value == clone_accumulator(am)
                metadata_witnesses == << compute_witness(am, delegatee_id_scalar),
                                         compute_witness(am, iat_scalar),
                                         compute_witness(am, exp_scalar) >>
                permission_witnesses == compute_witnesses(am, permission_scalars)
            IN  IF optional_issuer_vc = None
                THEN [res |-> "Ok",
                      vc |-> Some(VerifiableCredential(self,
                                OurDelegationCredential(delegatee_id,
                                    accumulator_value, iat, exp, permissions,
                                    metadata_witnesses, permission_witnesses, <<>>)))]
                ELSE issue_with_parent(self, optional_issuer_vc[1], delegatee_id,
                         iat, exp, permissions, accumulator_value,
                         metadata_witnesses, permission_witnesses)

(***************************************************************************)
(* Credential::retain_only and is_empty of OurDelegationCredential.        *)
(* removed lists the 0-based indices dropped.                              *)
(***************************************************************************)
\* retain_only that leaves the hierarchy entries as they are
retain_only_outer(credential, allowed) ==
    LET removable_indices == removable_from(credential.permissions, allowed, 0)
        st == remove_lockstep([permissions |-> credential.permissions,
                               permission_witnesses |-> credential.permission_witnesses,
                               hierarchy |-> <<>>,
                               panicked |-> FALSE],
                              removable_indices)
    IN  [panicked |-> st.panicked,
         removed |-> removable_indices,
         credential |-> [credential EXCEPT
                            !.permissions = st.permissions,
                            !.permission_witnesses = st.permission_witnesses]]

retain_only(credential, allowed) ==
    LET removable_indices == removable_from(credential.permissions, allowed, 0)
        st == remove_lockstep([permissions |-> credential.permissions,
                               permission_witnesses |-> credential.permission_witnesses,
                               hierarchy |-> credential.hierarchy,
                               panicked |-> FALSE],
                              removable_indices)
    IN  [panicked |-> st.panicked,
         removed |-> removable_indices,
         credential |-> [credential EXCEPT
                            !.permissions = st.permissions,
                            !.permission_witnesses = st.permission_witnesses,
                            !.hierarchy = st.hierarchy]]

is_empty(credential) ==
    credential.permissions = <<>> \/ credential.permission_witnesses = <<>>

(***************************************************************************)
(* Presentation envelope.  An EdDSA signature is the pair of the signing   *)
(* key and the message signed.                                             *)
(***************************************************************************)
VerifiablePresentation(issuer, credential) ==
    [issuer |-> issuer, credential |-> credential]

\* from_verifiable_credential that does not test is_empty
from_verifiable_credential_unrefused(v, claims_to_keep) ==
    LET r == retain_only(v.credential, claims_to_keep)
    IN  IF r.panicked THEN [res |-> "Panic", vp |-> None]
        ELSE [res |-> "Ok",
              vp |-> Some(VerifiablePresentation(v.issuer, r.credential))]

from_verifiable_credential(v, claims_to_keep) ==
    LET r == retain_only(v.credential, claims_to_keep)
    IN  IF r.panicked THEN [res |-> "Panic", vp |-> None]
        ELSE IF is_empty(r.credential)
        THEN [res |-> "EmptyPresentation", vp |-> None]
        ELSE [res |-> "Ok",
              vp |-> Some(VerifiablePresentation(v.issuer, r.credential))]

\* serde_json::to_value: the claims of a presentation under their names
to_value(vp) == ("issuer" :> vp.issuer) @@ ("credentialSubject" :> vp.credential)

\* serde_json::from_value: the presentation of a claims set that has every
\* claim of one; claims of other names are ignored
from_value(claims_set) ==
    IF {"issuer", "credentialSubject"} \subseteq DOMAIN claims_set
    THEN [ok |-> TRUE,
          v |-> VerifiablePresentation(claims_set["issuer"],
                                       claims_set["credentialSubject"])]
    ELSE [ok |-> FALSE, v |-> None]

\* the header names the signer's algorithm, which encode_with_signer writes
\* over the one set before it; the signature covers header and payload
to_signed_jwt(vp, private_key) ==
    LET header == [alg |-> "EdDSA"]
        payload == to_value(vp)
    IN  [header |-> header, payload |-> payload,
         signature |-> [key |-> private_key, msg |-> <<header, payload>>]]

\* from_signed_jwt that does not verify the signature
from_signed_jwt_unverified(jwt, public_key) ==
    LET d == from_value(jwt.payload)
    IN  [ok |-> jwt.header.alg = "EdDSA" /\ d.ok, vp |-> d.v]

from_signed_jwt(jwt, public_key) ==
    LET d == from_value(jwt.payload)
    IN  [ok |-> /\ jwt.header.alg = "EdDSA"
                /\ jwt.signature.key = public_key
                /\ jwt.signature.msg = <<jwt.header, jwt.payload>>
                /\ d.ok,
         vp |-> d.v]

\* OurIssuer::issue_delegation_verifiable_presentation
issue_delegation_verifiable_presentation(self, v, disclosed_permissions) ==
    LET r == from_verifiable_credential(v, disclosed_permissions)
    IN  IF r.res # "Ok" THEN [res |-> r.res, jwt |-> None]
        ELSE [res |-> "Ok", jwt |-> Some(to_signed_jwt(r.vp[1], self))]

(***************************************************************************)
(* Timing validator.                                                       *)
(***************************************************************************)
\* verify_timings that takes the expiry instant itself as expired
verify_timings_exclusive(t, iat, exp) ==
    LET iat_ns == from_str(iat)
        exp_ns == from_str(exp)
    IN  IF iat_ns = -1 \/ exp_ns = -1 THEN "ParseError"
        ELSE IF t < iat_ns THEN "NotYetValid"
        ELSE IF t >= exp_ns THEN "Expired"
        ELSE IF iat_ns > exp_ns THEN "Inverted"
        ELSE "Ok"

\* verify_timings that does not compare now with exp
verify_timings_iat_only(t, iat, exp) ==
    LET iat_ns == from_str(iat)
        exp_ns == from_str(exp)
    IN  IF iat_ns = -1 \/ exp_ns = -1 THEN "ParseError"
        ELSE IF t < iat_ns THEN "NotYetValid"
        ELSE IF iat_ns > exp_ns THEN "Inverted"
        ELSE "Ok"

verify_timings(t, iat, exp) ==
    LET iat_ns == from_str(iat)
        exp_ns == from_str(exp)
    IN  IF iat_ns = -1 \/ exp_ns = -1 THEN "ParseError"
        ELSE IF t < iat_ns THEN "NotYetValid"
        ELSE IF t > exp_ns THEN "Expired"
        ELSE IF iat_ns > exp_ns THEN "Inverted"
        ELSE "Ok"

(***************************************************************************)
(* Accumulator verifier.                                                   *)
(***************************************************************************)
\* the scalar a pair is checked for: the element text decoded as a scalar
element_value(element) == deserialize_scalar(element)

\* verify_accumulator_witness that drops the outcome of verify_membership
verify_accumulator_witness_unchecked(accumulator_value, witness, element, public_key) ==
    LET e == element_value(element)
        w == deserialize("wit", witness)
    IN  IF ~e.ok \/ ~w.ok THEN "Deserialize" ELSE "Ok"

verify_accumulator_witness(accumulator_value, witness, element, public_key) ==
    LET e == element_value(element)
        w == deserialize("wit", witness)
    IN  IF ~e.ok \/ ~w.ok THEN "Deserialize"
        ELSE IF verify_membership(accumulator_value, e.v, w.v, public_key)
        THEN "Ok"
        ELSE "MembershipFailed"

\* the sequential loop: the first failure, in input order
RECURSIVE verify_each(_, _, _, _, _)
verify_each(accumulator_value, witnesses, elements, public_key, i) ==
    IF i > Len(witnesses) THEN "Ok"
    ELSE LET r == verify_accumulator_witness(accumulator_value, witnesses[i],
                                             elements[i], public_key)
         IN  IF r # "Ok" THEN r
             ELSE verify_each(accumulator_value, witnesses, elements, public_key, i + 1)

\* the collector: thread.join() is Err only for a thread that panicked; the
\* value a thread returned is dropped
RECURSIVE join_each(_, _)
join_each(outcomes, i) ==
    IF i > Len(outcomes) THEN "Ok"
    ELSE IF outcomes[i] = "Panic" THEN "WorkerPanic"
    ELSE join_each(outcomes, i + 1)

verify_accumulator_witnesses(accumulator_value, public_key, witnesses, elements, parallel) ==
    IF Len(elements) # Len(witnesses) THEN "LengthMismatch"
    ELSE IF ~parallel
    THEN verify_each(accumulator_value, witnesses, elements, public_key, 1)
    ELSE join_each([i \in 1..Len(witnesses) |->
                       verify_accumulator_witness(accumulator_value, witnesses[i],
                                                  elements[i], public_key)], 1)

(***************************************************************************)
(* OurVerifier.                                                            *)
(***************************************************************************)
verify_delegation(acc_dlt, delegation, issuer, permissions, now_ns, parallel) ==
    LET timing == verify_timings(now_ns, delegation.iat, delegation.exp)
        av == deserialize("acc", delegation.accumulator_value)
        metadata == << delegation.delegatee_id, delegation.iat, delegation.exp >>
    IN  IF timing # "Ok" THEN timing
        ELSE IF issuer \notin acc_dlt THEN "UnknownIssuer"
        ELSE IF ~av.ok THEN "Deserialize"
        ELSE LET m == verify_accumulator_witnesses(av.v, issuer,
                          delegation.metadata_witnesses, metadata, parallel)
             IN  IF m # "Ok" THEN m
                 ELSE verify_accumulator_witnesses(av.v, issuer,
                          delegation.permission_witnesses, permissions, parallel)

\* the walk that compares every entry with the issuer of the presentation:
\* current is not moved to the entry's id
RECURSIVE walk_stale(_, _, _, _, _, _, _)
walk_stale(acc_dlt, vp, k, current, now_ns, parallel, log) ==
    LET dc == vp.credential
    IN  IF k = 0
        THEN [res |-> verify_delegation(acc_dlt, dc, vp.issuer, dc.permissions,
                                        now_ns, parallel),
              log |-> Append(log, [level |-> 0, issuer |-> vp.issuer])]
        ELSE LET delegator == dc.hierarchy[k]
                 previous == delegator.delegatee_id
                 r == verify_delegation(acc_dlt, delegator, previous,
                                        dc.permissions, now_ns, parallel)
                 log1 == Append(log, [level |-> k, issuer |-> previous])
             IN  IF previous # current THEN [res |-> "ChainBroken", log |-> log]
                 ELSE IF r # "Ok" THEN [res |-> r, log |-> log1]
                 ELSE walk_stale(acc_dlt, vp, k - 1, current, now_ns, parallel, log1)

\* the walk that does not compare an entry's delegatee with the issuer of
\* the level below it
RECURSIVE walk_unlinked(_, _, _, _, _, _, _)
walk_unlinked(acc_dlt, vp, k, current, now_ns, parallel, log) ==
    LET dc == vp.credential
    IN  IF k = 0
        THEN [res |-> verify_delegation(acc_dlt, dc, vp.issuer, dc.permissions,
                                        now_ns, parallel),
              log |-> Append(log, [level |-> 0, issuer |-> vp.issuer])]
        ELSE LET delegator == dc.hierarchy[k]
                 previous == delegator.delegatee_id
                 r == verify_delegation(acc_dlt, delegator, previous,
                                        dc.permissions, now_ns, parallel)
                 log1 == Append(log, [level |-> k, issuer |-> previous])
             IN  IF r # "Ok" THEN [res |-> r, log |-> log1]
                 ELSE walk_unlinked(acc_dlt, vp, k - 1, delegator.id, now_ns,
                                    parallel, log1)

\* the walk over hierarchy[k], hierarchy[k-1], ..., then the credential
\* itself; log lists, for every verify_delegation call made, the level
\* (0 is the credential itself) and the directory id its key material was
\* looked up under
RECURSIVE walk(_, _, _, _, _, _, _)
walk(acc_dlt, vp, k, current, now_ns, parallel, log) ==
    LET dc == vp.credential
    IN  IF k = 0
        THEN [res |-> verify_delegation(acc_dlt, dc, vp.issuer, dc.permissions,
                                        now_ns, parallel),
              log |-> Append(log, [level |-> 0, issuer |-> vp.issuer])]
        ELSE LET delegator == dc.hierarchy[k]
                 previous == delegator.delegatee_id
                 r == verify_delegation(acc_dlt, delegator, previous,
                                        dc.permissions, now_ns, parallel)
                 log1 == Append(log, [level |-> k, issuer |-> previous])
             IN  IF previous # current THEN [res |-> "ChainBroken", log |-> log]
                 ELSE IF r # "Ok" THEN [res |-> r, log |-> log1]
                 ELSE walk(acc_dlt, vp, k - 1, delegator.id, now_ns, parallel, log1)

\* the verification with the key of the presenter taken for granted
verify_presenter_unchecked(acc_dlt, ver_dlt, presenter_id, signed_jwt, parallel, now_ns) ==
    LET d == from_signed_jwt(signed_jwt, presenter_id)
    IN  IF ~d.ok THEN [res |-> "JWSInvalid", log |-> <<>>]
        ELSE walk(acc_dlt, d.vp, Len(d.vp.credential.hierarchy), d.vp.issuer,
                  now_ns, parallel, <<>>)

verify_verifiable_presentation(acc_dlt, ver_dlt, presenter_id, signed_jwt, parallel, now_ns) ==
    IF presenter_id \notin ver_dlt THEN [res |-> "UnknownPresenter", log |-> <<>>]
    ELSE LET d == from_signed_jwt(signed_jwt, presenter_id)
         IN  IF ~d.ok THEN [res |-> "JWSInvalid", log |-> <<>>]
             ELSE walk(acc_dlt, d.vp, Len(d.vp.credential.hierarchy), d.vp.issuer,
                       now_ns, parallel, <<>>)

(***************************************************************************)
(* The signature-and-encryption scheme (PJVIssuerVerifier).  An Ed25519    *)
(* signature is the pair of signing key and message, carried as base64url  *)
(* text; a compact JWE is the pair of the key it was encrypted for and the *)
(* plaintext.  The hierarchy of a delegator is a text: <<>> is the empty   *)
(* string, <<jwe>> a compact JWE.                                          *)
(***************************************************************************)
PJVDelegator(owner, iss, sub, iat, exp, resource_uri, operations, hierarchy) ==
    [owner |-> owner, iss |-> iss, sub |-> sub, iat |-> iat, exp |-> exp,
     resource_uri |-> resource_uri, operations |-> operations,
     hierarchy |-> hierarchy]

PJVSignature(signature) == [signature |-> signature]

PJVDelegationCredential(delegator, signature) ==
    [delegator |-> delegator, signature |-> signature]

\* serde_json::to_string and serde_json::from_str of a value of type kind
to_json(kind, value) == [json |-> kind, value |-> value]
from_json(kind, text) == [ok |-> text.json = kind, v |-> text.value]

\* Base64Url.encode and Base64Url.decode of signature bytes
encode_signature(bytes) == [enc |-> "b64", obj |-> bytes]
decode_signature(text) == [ok |-> text.enc = "b64", v |-> text.obj]

\* josekit::jwe::serialize_compact for the public key published by recipient
jwe_encrypt(plaintext, recipient) == [recipient |-> recipient, plaintext |-> plaintext]

\* deserialize_compact that does not look at the key the text was encrypted for
jwe_decrypt_any(hierarchy, decryption_jwk) ==
    [ok |-> TRUE, v |-> hierarchy.plaintext]

\* josekit::jwe::deserialize_compact with the private key of decryption_jwk
jwe_decrypt(hierarchy, decryption_jwk) ==
    [ok |-> hierarchy.recipient = decryption_jwk, v |-> hierarchy.plaintext]

sign_delegator(self, delegator) ==
    PJVSignature(encode_signature([key |-> self,
                                   msg |-> to_json("PJVDelegator", delegator)]))

\* the issuance with the owner looked up before the operations are counted
pjv_issue_owner_first(self, enc_dlt, delegatee_id, validity_period, owner, resource_uri, operations, optional_issuer_vc, t) ==
    IF optional_issuer_vc # None /\ owner \notin enc_dlt
    THEN IssueErr("UnknownOwner")
    ELSE IF operations = <<>> THEN IssueErr("EmptyPermissions")
    ELSE
    LET iat == to_string(t)
        exp == to_string(t + validity_period)
        hierarchy == IF optional_issuer_vc = None THEN <<>>
                     ELSE << jwe_encrypt(to_json("PJVDelegationCredential",
                                                 optional_issuer_vc[1].credential),
                                         owner) >>
        delegator == PJVDelegator(owner, self, delegatee_id, iat, exp,
                                  resource_uri, operations, hierarchy)
        dc == PJVDelegationCredential(delegator, sign_delegator(self, delegator))
    IN  [res |-> "Ok", vc |-> Some(VerifiableCredential(self, dc))]

pjv_issue_delegation_verifiable_credential(self, enc_dlt, delegatee_id, validity_period, owner, resource_uri, operations, optional_issuer_vc, t) ==
    IF operations = <<>> THEN IssueErr("EmptyPermissions")
    ELSE IF optional_issuer_vc # None /\ owner \notin enc_dlt
    THEN IssueErr("UnknownOwner")
    ELSE
    LET iat == to_string(t)
        exp == to_string(t + validity_period)
        hierarchy == IF optional_issuer_vc = None THEN <<>>
                     ELSE << jwe_encrypt(to_json("PJVDelegationCredential",
                                                 optional_issuer_vc[1].credential),
                                         owner) >>
        delegator == PJVDelegator(owner, self, delegatee_id, iat, exp,
                                  resource_uri, operations, hierarchy)
        dc == PJVDelegationCredential(delegator, sign_delegator(self, delegator))
    IN  [res |-> "Ok", vc |-> Some(VerifiableCredential(self, dc))]

\* the removal loop run over the indices first to last: every removal shifts
\* the entries the later indices name
RECURSIVE remove_each_forward(_, _)
remove_each_forward(seq, indices) ==
    IF indices = <<>> THEN seq
    ELSE remove_each_forward(
             IF indices[1] < Len(seq) THEN remove(seq, indices[1]) ELSE seq,
             SubSeq(indices, 2, Len(indices)))

\* Vec::remove of the 0-based indices, last first
RECURSIVE remove_each(_, _)
remove_each(seq, indices) ==
    IF indices = <<>> THEN seq
    ELSE remove_each(remove(seq, indices[Len(indices)]),
                     SubSeq(indices, 1, Len(indices) - 1))

\* Credential::retain_only and is_empty of PJVDelegationCredential
pjv_retain_only(credential, allowed) ==
    LET removable_indices == removable_from(credential.delegator.operations, allowed, 0)
    IN  [removed |-> removable_indices,
         credential |-> [credential EXCEPT !.delegator.operations =
                                               remove_each(@, removable_indices)]]

pjv_is_empty(credential) ==
    credential.delegator.operations = <<>> \/ credential.delegator.resource_uri = ""

pjv_from_verifiable_credential(v, claims_to_keep) ==
    LET r == pjv_retain_only(v.credential, claims_to_keep)
    IN  IF pjv_is_empty(r.credential)
        THEN [res |-> "EmptyPresentation", vp |-> None]
        ELSE [res |-> "Ok",
              vp |-> Some(VerifiablePresentation(v.issuer, r.credential))]

\* the presentation with the signature of the credential left as issued
pjv_presentation_signature_kept(self, v, disclosed_permissions) ==
    LET r == pjv_from_verifiable_credential(v, disclosed_permissions)
    IN  IF r.res # "Ok" THEN [res |-> r.res, jwt |-> None]
        ELSE [res |-> "Ok", jwt |-> Some(to_signed_jwt(r.vp[1], self))]

pjv_issue_delegation_verifiable_presentation(self, v, disclosed_permissions) ==
    LET r == pjv_from_verifiable_credential(v, disclosed_permissions)
    IN  IF r.res # "Ok" THEN [res |-> r.res, jwt |-> None]
        ELSE LET delegator == r.vp[1].credential.delegator
                 vp == [r.vp[1] EXCEPT !.credential.signature.signature =
                                           sign_delegator(self, delegator).signature]
             IN  [res |-> "Ok", jwt |-> Some(to_signed_jwt(vp, self))]

\* verify_signature that accepts every signature text that decodes
verify_signature_decoded(ver_dlt, delegator, signature) ==
    LET d == decode_signature(signature.signature)
    IN  IF delegator.iss \notin ver_dlt THEN "UnknownIssuer"
        ELSE IF ~d.ok THEN "Deserialize"
        ELSE "Ok"

verify_signature(ver_dlt, delegator, signature) ==
    LET d == decode_signature(signature.signature)
    IN  IF delegator.iss \notin ver_dlt THEN "UnknownIssuer"
        ELSE IF ~d.ok THEN "Deserialize"
        ELSE IF d.v.key = delegator.iss /\ d.v.msg = to_json("PJVDelegator", delegator)
        THEN "Ok"
        ELSE "JWSInvalid"

\* the test of a credential with an empty hierarchy, on the owner alone
is_root_owner_only(self_id, delegator) == self_id = delegator.owner

\* the test of a credential with an empty hierarchy
is_root(self_id, delegator) ==
    ~(self_id # delegator.owner \/ self_id # delegator.iss)

operations_unchecked(delegator, decrypted_delegator) == TRUE

\* every operation of the delegator is one of the decrypted delegator's
operations_inherited(delegator, decrypted_delegator) ==
    \A i \in 1..Len(delegator.operations) :
        contains(decrypted_delegator.operations, delegator.operations[i])

subject_unchecked(delegator, decrypted_delegator) == TRUE

\* the delegator was issued by the subject of the decrypted delegator
issued_by_subject(delegator, decrypted_delegator) ==
    ~(delegator.iss # decrypted_delegator.sub)

\* the verification that does not go into the hierarchy: a credential with a
\* parent is accepted on its own timing and signature
pjv_verify_outermost_only(self_id, ver_dlt, delegation_credential, now_ns) ==
    LET delegator == delegation_credential.delegator
        timing == verify_timings(now_ns, delegator.iat, delegator.exp)
        sig == verify_signature(ver_dlt, delegator, delegation_credential.signature)
    IN  IF timing # "Ok" THEN [res |-> timing, delegator |-> None, verified |-> 0]
        ELSE IF sig # "Ok" THEN [res |-> sig, delegator |-> None, verified |-> 0]
        ELSE IF delegator.hierarchy = <<>> /\ ~is_root(self_id, delegator)
        THEN [res |-> "InvalidRoot", delegator |-> None, verified |-> 1]
        ELSE [res |-> "Ok", delegator |-> Some(delegator), verified |-> 1]

\* the result is the error kind or "Ok", the delegator verified (Ok only),
\* and the number of credentials whose timing and signature were verified
RECURSIVE pjv_verify_delegation_credential(_, _, _, _)
pjv_verify_delegation_credential(self_id, ver_dlt, delegation_credential, now_ns) ==
    LET delegator == delegation_credential.delegator
        signature == delegation_credential.signature
        timing == verify_timings(now_ns, delegator.iat, delegator.exp)
        sig == verify_signature(ver_dlt, delegator, signature)
        Err(kind, n) == [res |-> kind, delegator |-> None, verified |-> n]
    IN  IF timing # "Ok" THEN Err(timing, 0)
        ELSE IF sig # "Ok" THEN Err(sig, 0)
        ELSE IF delegator.hierarchy = <<>>
        THEN IF is_root(self_id, delegator)
             THEN [res |-> "Ok", delegator |-> Some(delegator), verified |-> 1]
             ELSE Err("InvalidRoot", 1)
        ELSE
        LET payload == jwe_decrypt(delegator.hierarchy[1], self_id)
            parsed == from_json("PJVDelegationCredential", payload.v)
        IN  IF ~payload.ok THEN Err("JWEInvalid", 1)
            ELSE IF ~parsed.ok THEN Err("Deserialize", 1)
            ELSE
            LET r == pjv_verify_delegation_credential(self_id, ver_dlt, parsed.v, now_ns)
            IN  IF r.res # "Ok" THEN [r EXCEPT !.verified = @ + 1]
                ELSE IF ~operations_inherited(delegator, r.delegator[1])
                THEN Err("OperationNotInherited", r.verified + 1)
                ELSE IF ~issued_by_subject(delegator, r.delegator[1])
                THEN Err("ChainBroken", r.verified + 1)
                ELSE [res |-> "Ok", delegator |-> Some(delegator),
                      verified |-> r.verified + 1]

pjv_verify_verifiable_presentation(self_id, ver_dlt, presenter_id, signed_jwt, now_ns) ==
    IF presenter_id \notin ver_dlt THEN [res |-> "UnknownPresenter", verified |-> 0]
    ELSE LET d == from_signed_jwt(signed_jwt, presenter_id)
         IN  IF ~d.ok THEN [res |-> "JWSInvalid", verified |-> 0]
             ELSE LET r == pjv_verify_delegation_credential(self_id, ver_dlt,
                                                            d.vp.credential, now_ns)
                  IN  [res |-> r.res, verified |-> r.verified]

(***************************************************************************)
(* The protocol, as the harness drives it: delegators are constructed in   *)
(* order (each registers its keys in the two directories), credentials are *)
(* issued along a chain, then the latest credential is presented and the   *)
(* presentation verified.  vc is the credential most recently issued (the  *)
(* previous_vc of the next issuance), jws the presentation in flight, last *)
(* the call in progress with what it returns ("idle" between calls).       *)
(***************************************************************************)
\* no document is being parsed
NoDocument == raw_vc = None

\* no accumulator manager is in use
NoManager ==
    /\ manager = None
    /\ held = {}

BatchIdle ==
    /\ batch = None
    /\ threads = <<>>
    /\ joined = 0
    /\ batch_pc = "idle"
    /\ batch_result = "none"

Idle == [op |-> "idle"]

Init ==
    /\ accumulator_dlt = {}
    /\ verification_dlt = {}
    /\ now = 0
    /\ vc = None
    /\ jws = None
    /\ last = Idle
    /\ BatchIdle
    /\ encryption_dlt = {}
    /\ NoManager
    /\ NoDocument

Order == <<"d0", "d1">>

\* OurIssuer::new, for the delegators in the order the harness creates them
NewIssuer(id) ==
    /\ last = Idle
    /\ Cardinality(accumulator_dlt) < Len(Order)
    /\ encryption_dlt = {}
    /\ id = Order[Cardinality(accumulator_dlt) + 1]
    /\ accumulator_dlt' = accumulator_dlt \cup {id}
    /\ verification_dlt' = verification_dlt \cup {id}
    /\ UNCHANGED <<now, vc, jws, last>>
    /\ UNCHANGED batch_vars
    /\ UNCHANGED pjv_vars
    /\ UNCHANGED manager_vars
    /\ UNCHANGED parse_vars

\* the system clock advances while a presentation is in flight
Tick ==
    /\ last = Idle
    /\ jws # None
    /\ now < MaxNow
    /\ now' = now + 1
    /\ UNCHANGED <<accumulator_dlt, verification_dlt, vc, jws, last>>
    /\ UNCHANGED batch_vars
    /\ UNCHANGED pjv_vars
    /\ UNCHANGED manager_vars
    /\ UNCHANGED parse_vars

\* an issuance that also publishes a signature key for the delegatee
IssueRegistering(self, delegatee_id, validity_period, permissions, with_parent) ==
    /\ last = Idle
    /\ jws = None
    /\ now < MaxNow
    /\ self \in accumulator_dlt
    /\ delegatee_id # self
    /\ with_parent <=> vc # None
    /\ with_parent => Len(vc[1].credential.hierarchy) < MaxDepth
    /\ ~with_parent => permissions \in RootPermLists
    /\ LET parent == IF with_parent THEN vc ELSE None
           r == issue_delegation_verifiable_credential(self, delegatee_id,
                    validity_period, permissions, parent, now)
       IN  /\ vc' = IF r.res = "Ok" THEN r.vc ELSE vc
           /\ now' = IF r.res = "Ok" THEN now + 1 ELSE now
           /\ last' = [op |-> "issue", self |-> self, delegatee_id |-> delegatee_id,
                       validity_period |-> validity_period,
                       permissions |-> permissions, parent |-> parent,
                       t |-> now, res |-> r.res, out |-> r.vc]
    /\ verification_dlt' = verification_dlt \cup {delegatee_id}
    /\ UNCHANGED <<accumulator_dlt, jws>>
    /\ UNCHANGED batch_vars
    /\ UNCHANGED pjv_vars
    /\ UNCHANGED manager_vars
    /\ UNCHANGED parse_vars

\* one issuance of the chain: the first has no parent, each later one has the
\* credential issued before it as parent; the clock reading of every
\* issuance is later than that of the one before
Issue(self, delegatee_id, validity_period, permissions, with_parent) ==
    /\ last = Idle
    /\ jws = None
    /\ now < MaxNow
    /\ self \in accumulator_dlt
    /\ delegatee_id # self
    /\ with_parent <=> vc # None
    /\ with_parent => Len(vc[1].credential.hierarchy) < MaxDepth
    /\ ~with_parent => permissions \in RootPermLists
    /\ LET parent == IF with_parent THEN vc ELSE None
           r == issue_delegation_verifiable_credential(self, delegatee_id,
                    validity_period, permissions, parent, now)
       IN  /\ vc' = IF r.res = "Ok" THEN r.vc ELSE vc
           /\ now' = IF r.res = "Ok" THEN now + 1 ELSE now
           /\ last' = [op |-> "issue", self |-> self, delegatee_id |-> delegatee_id,
                       validity_period |-> validity_period,
                       permissions |-> permissions, parent |-> parent,
                       t |-> now, res |-> r.res, out |-> r.vc]
    /\ UNCHANGED <<accumulator_dlt, verification_dlt, jws>>
    /\ UNCHANGED batch_vars
    /\ UNCHANGED pjv_vars
    /\ UNCHANGED manager_vars
    /\ UNCHANGED parse_vars

Present(self, disclosed_permissions) ==
    /\ last = Idle
    /\ encryption_dlt = {}
    /\ jws = None
    /\ self \in verification_dlt
    /\ vc # None
    /\ LET r == issue_delegation_verifiable_presentation(self, vc[1],
                    disclosed_permissions)
       IN  /\ jws' = r.jwt
           /\ last' = [op |-> "present", self |-> self,
                       disclosed |-> disclosed_permissions, res |-> r.res]
    /\ UNCHANGED <<accumulator_dlt, verification_dlt, now, vc>>
    /\ UNCHANGED batch_vars
    /\ UNCHANGED pjv_vars
    /\ UNCHANGED manager_vars
    /\ UNCHANGED parse_vars

\* the text of a witness with one byte flipped: it no longer decodes ("bad"),
\* or it decodes to another point ("point")
flip(witness, how) ==
    IF how = "bad" THEN [witness EXCEPT !.enc = "bad"]
    ELSE [witness EXCEPT !.obj.x = convert_string_to_scalar("flipped")]

\* the presentation with the permission witness at 1-based index j altered,
\* on the credential itself (level 0) or on hierarchy entry level
altered(vp, level, j, how) ==
    IF level = 0
    THEN [vp EXCEPT !.credential.permission_witnesses[j] = flip(@, how)]
    ELSE [vp EXCEPT !.credential.hierarchy[level].permission_witnesses[j] = flip(@, how)]

\* the presentations the holder self can make of the credential v
Presentations(self, v) ==
    {to_signed_jwt(from_verifiable_credential(v, d).vp[1], self) :
        d \in {x \in DisclosedLists : from_verifiable_credential(v, x).res = "Ok"}}

Unaltered == jws # None /\ jws[1] \in Presentations(jws[1].signature.key, vc[1])

\* the holder alters one permission witness of the presentation made and
\* signs the result
AlterWitness(level, j, how) ==
    /\ last = Idle
    /\ encryption_dlt = {}
    /\ Unaltered
    /\ LET vp == from_value(jws[1].payload).v
       IN  /\ level \in 0..Len(vp.credential.hierarchy)
           /\ j \in 1..(IF level = 0 THEN Len(vp.credential.permission_witnesses)
                        ELSE Len(vp.credential.hierarchy[level].permission_witnesses))
           /\ jws' = Some(to_signed_jwt(altered(vp, level, j, how),
                                        jws[1].signature.key))
    /\ UNCHANGED <<accumulator_dlt, verification_dlt, now, vc, last>>
    /\ UNCHANGED batch_vars
    /\ UNCHANGED pjv_vars
    /\ UNCHANGED manager_vars
    /\ UNCHANGED parse_vars

Verify(presenter_id, parallel) ==
    /\ last = Idle
    /\ encryption_dlt = {}
    /\ jws # None
    /\ LET r == verify_verifiable_presentation(accumulator_dlt, verification_dlt,
                    presenter_id, jws[1], parallel, now)
       IN  last' = [op |-> "verify", presenter_id |-> presenter_id,
                    parallel |-> parallel, res |-> r.res, log |-> r.log]
    /\ UNCHANGED <<accumulator_dlt, verification_dlt, now, vc, jws>>
    /\ UNCHANGED batch_vars
    /\ UNCHANGED pjv_vars
    /\ UNCHANGED manager_vars
    /\ UNCHANGED parse_vars

\* the caller takes the result of the call and goes on
Return ==
    /\ last # Idle
    /\ last' = Idle
    /\ UNCHANGED <<accumulator_dlt, verification_dlt, now, vc, jws>>
    /\ UNCHANGED batch_vars
    /\ UNCHANGED pjv_vars
    /\ UNCHANGED manager_vars
    /\ UNCHANGED parse_vars

Next ==
    \/ \E id \in Ids : NewIssuer(id)
    \/ Tick
    \/ \E self \in Ids, delegatee_id \in Ids, validity_period \in ValidityPeriods,
          permissions \in PermLists, with_parent \in BOOLEAN :
          Issue(self, delegatee_id, validity_period, permissions, with_parent)
    \/ \E self \in Ids, disclosed_permissions \in DisclosedLists :
          Present(self, disclosed_permissions)
    \/ \E level \in 0..MaxDepth, j \in 1..MaxDisclosed, how \in {"point"} :
          AlterWitness(level, j, how)
    \/ \E presenter_id \in Ids, parallel \in BOOLEAN : Verify(presenter_id, parallel)
    \/ Return

Spec == Init /\ [][Next]_vars

\* a request that lists permissions of the parent in another order than the
\* parent's
ReorderedPermLists == { <<"p1", "p0">>, <<"p2", "p0">> }

\* the accumulator scheme with delegators that ask for permissions in an
\* order of their own
ReorderNext ==
    \/ Next
    \/ \E self \in Ids, delegatee_id \in Ids, validity_period \in ValidityPeriods,
          permissions \in ReorderedPermLists :
          Issue(self, delegatee_id, validity_period, permissions, TRUE)

ReorderSpec == Init /\ [][ReorderNext]_vars

(***************************************************************************)
(* The protocol of the signature-and-encryption scheme, as its harness     *)
(* drives it with directories of its own: the delegators are constructed   *)
(* in order, credentials are issued along a chain with one owner, the      *)
(* latest credential is presented and a delegator verifies the             *)
(* presentation.                                                           *)
(***************************************************************************)
PJVOrder == <<"d0", "d1", "d2", "d3">>
PJVIds == {PJVOrder[i] : i \in 1..Len(PJVOrder)}

\* the delegator after id in the order, the delegatee of what id issues
successor(id) == PJVOrder[(CHOOSE i \in 1..Len(PJVOrder) : PJVOrder[i] = id) + 1]

\* an identifier for which no delegator is ever constructed
Unregistered == "d4"

\* the owners a chain is issued for: the first delegator, or a delegator
\* that was never constructed
Owners == {PJVOrder[1], Unregistered}

OperationLists == { <<>>, <<"p0", "p1", "p2">>, <<"p1", "p3">> }
DisclosedOperations == { <<"p1">>, <<"p3">> }
PJVValidityPeriods == {0, MaxValidity}

\* the resource a chain is issued for, or the empty text
ResourceURIs == {"r1", ""}

\* the credential a hierarchy text holds, as its issuer encrypted it
enclosed(hierarchy) == hierarchy[1].plaintext.value

\* the credentials of a chain, the outermost first
RECURSIVE chain_of(_)
chain_of(credential) ==
    <<credential>> \o (IF credential.delegator.hierarchy = <<>> THEN <<>>
                       ELSE chain_of(enclosed(credential.delegator.hierarchy)))

\* PJVIssuerVerifier::new, for the delegators in the order the harness
\* creates them
NewPJV(id) ==
    /\ last = Idle
    /\ accumulator_dlt = {}
    /\ Cardinality(encryption_dlt) < Len(PJVOrder)
    /\ id = PJVOrder[Cardinality(encryption_dlt) + 1]
    /\ encryption_dlt' = encryption_dlt \cup {id}
    /\ verification_dlt' = verification_dlt \cup {id}
    /\ UNCHANGED <<accumulator_dlt, now, vc, jws, last>>
    /\ UNCHANGED batch_vars
    /\ UNCHANGED manager_vars
    /\ UNCHANGED parse_vars

\* one issuance of the chain, to the delegator after self: the first has no
\* parent and chooses the owner and the resource, each later one has the
\* credential issued before it as parent and names the same owner and resource
PJVIssueAny(self, validity_period, owner, resource_uri, operations) ==
    /\ last = Idle
    /\ jws = None
    /\ now < MaxNow
    /\ self \in encryption_dlt
    /\ Cardinality(encryption_dlt) = Len(PJVOrder)
    /\ self # PJVOrder[Len(PJVOrder)]
    /\ IF vc = None
       THEN self \in {PJVOrder[1], PJVOrder[2]}
       ELSE /\ Len(chain_of(vc[1].credential)) <= MaxDepth
            /\ self \in {vc[1].credential.delegator.sub, PJVOrder[1]}
            /\ owner = vc[1].credential.delegator.owner
    /\ LET r == pjv_issue_delegation_verifiable_credential(self, encryption_dlt,
                    successor(self), validity_period, owner, resource_uri, operations, vc, now)
       IN  /\ vc' = IF r.res = "Ok" THEN r.vc ELSE vc
           /\ now' = IF r.res = "Ok" THEN now + 1 ELSE now
           /\ last' = [op |-> "pjv_issue", self |-> self,
                       validity_period |-> validity_period, owner |-> owner,
                       resource_uri |-> resource_uri,
                       operations |-> operations, parent |-> vc, t |-> now,
                       res |-> r.res, out |-> r.vc]
    /\ UNCHANGED <<accumulator_dlt, verification_dlt, encryption_dlt, jws>>
    /\ UNCHANGED batch_vars
    /\ UNCHANGED manager_vars
    /\ UNCHANGED parse_vars

\* an issuance for the resource of the parent credential, when there is one
PJVIssue(self, validity_period, owner, resource_uri, operations) ==
    /\ self \in encryption_dlt
    /\ vc # None => resource_uri = vc[1].credential.delegator.resource_uri
    /\ PJVIssueAny(self, validity_period, owner, resource_uri, operations)

\* the issuer of the latest credential, or its subject, presents it
PJVPresent(self, disclosed_permissions) ==
    /\ last = Idle
    /\ jws = None
    /\ encryption_dlt # {}
    /\ vc # None
    /\ self \in encryption_dlt
    /\ self \in {vc[1].issuer, vc[1].credential.delegator.sub}
    /\ LET r == pjv_issue_delegation_verifiable_presentation(self, vc[1],
                    disclosed_permissions)
       IN  /\ jws' = r.jwt
           /\ last' = [op |-> "pjv_present", self |-> self,
                       disclosed |-> disclosed_permissions, res |-> r.res]
    /\ UNCHANGED <<accumulator_dlt, verification_dlt, encryption_dlt, now, vc>>
    /\ UNCHANGED batch_vars
    /\ UNCHANGED manager_vars
    /\ UNCHANGED parse_vars

\* the signature text with one byte flipped: it no longer decodes ("bad"), or
\* it decodes to the signature of no key ("point")
flip_signature(text, how) ==
    IF how = "bad" THEN [text EXCEPT !.enc = "bad"]
    ELSE [text EXCEPT !.obj.key = "flipped"]

\* the credential with the signature of the credential at depth altered
\* (0 is the credential itself); every hierarchy above it is encrypted
\* again for the same key and every delegator above it signed again with
\* the key that had signed it
RECURSIVE pjv_altered(_, _, _)
pjv_altered(credential, depth, how) ==
    IF depth = 0
    THEN [credential EXCEPT !.signature.signature = flip_signature(@, how)]
    ELSE LET hierarchy == credential.delegator.hierarchy
             inner == pjv_altered(enclosed(hierarchy), depth - 1, how)
             delegator == [credential.delegator EXCEPT !.hierarchy =
                              << jwe_encrypt(to_json("PJVDelegationCredential", inner),
                                             hierarchy[1].recipient) >>]
         IN  PJVDelegationCredential(delegator,
                 sign_delegator(credential.signature.signature.obj.key, delegator))

\* the presentations self can make of the credential v
PJVPresentations(self, v) ==
    {pjv_issue_delegation_verifiable_presentation(self, v, d).jwt[1] :
        d \in {x \in DisclosedOperations :
                  pjv_issue_delegation_verifiable_presentation(self, v, x).res = "Ok"}}

PJVUnaltered == jws # None /\ jws[1] \in PJVPresentations(jws[1].signature.key, vc[1])

\* the signature of one credential of the presentation made is altered and
\* the result signed as a presentation again
PJVAlterSignature(depth, how) ==
    /\ last = Idle
    /\ encryption_dlt # {}
    /\ PJVUnaltered
    /\ LET vp == from_value(jws[1].payload).v
       IN  /\ depth < Len(chain_of(vp.credential))
           /\ jws' = Some(to_signed_jwt(
                         [vp EXCEPT !.credential = pjv_altered(@, depth, how)],
                         jws[1].signature.key))
    /\ UNCHANGED <<accumulator_dlt, verification_dlt, encryption_dlt, now, vc, last>>
    /\ UNCHANGED batch_vars
    /\ UNCHANGED manager_vars
    /\ UNCHANGED parse_vars

\* the delegator self verifies the presentation
PJVVerify(self, presenter_id) ==
    /\ last = Idle
    /\ encryption_dlt # {}
    /\ jws # None
    /\ self \in encryption_dlt
    /\ presenter_id \in {jws[1].signature.key, PJVOrder[1], Unregistered}
    /\ LET r == pjv_verify_verifiable_presentation(self, verification_dlt,
                    presenter_id, jws[1], now)
       IN  last' = [op |-> "pjv_verify", self |-> self, presenter_id |-> presenter_id,
                    res |-> r.res, verified |-> r.verified]
    /\ UNCHANGED <<accumulator_dlt, verification_dlt, encryption_dlt, now, vc, jws>>
    /\ UNCHANGED batch_vars
    /\ UNCHANGED manager_vars
    /\ UNCHANGED parse_vars

PJVNext ==
    \/ \E id \in PJVIds : NewPJV(id)
    \/ encryption_dlt # {} /\ Tick
    \/ \E self \in PJVIds, validity_period \in PJVValidityPeriods, owner \in Owners,
          resource_uri \in ResourceURIs, operations \in OperationLists :
          PJVIssue(self, validity_period, owner, resource_uri, operations)
    \/ \E self \in PJVIds, disclosed_permissions \in DisclosedOperations :
          PJVPresent(self, disclosed_permissions)
    \/ \E depth \in 0..MaxDepth, how \in {"point"} : PJVAlterSignature(depth, how)
    \/ \E self \in {PJVOrder[1], PJVOrder[2]}, presenter_id \in PJVIds \cup {Unregistered} :
          PJVVerify(self, presenter_id)
    \/ encryption_dlt # {} /\ Return

PJVSpec == Init /\ [][PJVNext]_vars

\* a resource other than the one a parent credential was granted for
OtherResourceURI == "r2"

\* an issuance from a parent credential for another resource than the parent's
PJVIssueElsewhere(self, validity_period, operations) ==
    /\ vc # None
    /\ vc[1].credential.delegator.resource_uri # OtherResourceURI
    /\ PJVIssueAny(self, validity_period, vc[1].credential.delegator.owner,
                   OtherResourceURI, operations)

\* the signature scheme with delegatees that name a resource of their own
ResourceNext ==
    \/ PJVNext
    \/ \E self \in PJVIds, validity_period \in PJVValidityPeriods,
          operations \in OperationLists :
          PJVIssueElsewhere(self, validity_period, operations)

ResourceSpec == Init /\ [][ResourceNext]_vars

\* the harness runs one scheme after the other, each with directories of its
\* own: a run of either scheme
BothNext == Next \/ PJVNext

BothSpec == Init /\ [][BothNext]_vars

(***************************************************************************)
(* The timing validator on its own: verify_timings applied to any reading  *)
(* of the clock and any two texts, decimal or not.                         *)
(***************************************************************************)
\* the decimal texts of the model's instants, and texts u128::from_str
\* rejects: the empty text, a letter, a negative number and 2^128
TimingTexts ==
    {to_string(n) : n \in 0..MaxTime}
        \cup {"", "x", "-1", "340282366920938463463374607431768211456"}

InitTimings ==
    /\ accumulator_dlt = {}
    /\ verification_dlt = {}
    /\ now \in 0..MaxNow
    /\ vc = None
    /\ jws = None
    /\ last = Idle
    /\ BatchIdle
    /\ encryption_dlt = {}
    /\ NoManager
    /\ NoDocument

VerifyTimings(iat, exp) ==
    /\ last = Idle
    /\ last' = [op |-> "verify_timings", iat |-> iat, exp |-> exp,
                res |-> verify_timings(now, iat, exp)]
    /\ UNCHANGED <<accumulator_dlt, verification_dlt, now, vc, jws>>
    /\ UNCHANGED batch_vars
    /\ UNCHANGED pjv_vars
    /\ UNCHANGED manager_vars
    /\ UNCHANGED parse_vars

TimingNext ==
    \/ \E iat \in TimingTexts, exp \in TimingTexts : VerifyTimings(iat, exp)
    \/ Return

TimingSpec == InitTimings /\ [][TimingNext]_vars

(***************************************************************************)
(* AccumulatorVerifier::verify_accumulator_witnesses step by step: the     *)
(* caller checks the lengths, then either verifies the pairs in order or   *)
(* spawns one thread per pair and joins the threads in input order, while  *)
(* the threads finish in any order.  batch is the call's input, threads    *)
(* the state of every thread spawned ("running", or the value it returned) *)
(* and joined the number of pairs verified (sequential) or threads joined. *)
(***************************************************************************)
\* longest batch verified
MaxBatch == 2

\* the accumulator of a credential granting p0 and p1 to d1, issued by d0
BatchManager ==
    add_element(
        add_elements(new_manager("d0"),
                     << convert_string_to_scalar("p0"),
                        convert_string_to_scalar("p1") >>).am,
        convert_string_to_scalar("d1")).am

BatchWitnesses ==
    LET w0 == compute_witness(BatchManager, convert_string_to_scalar("p0"))
        w1 == compute_witness(BatchManager, convert_string_to_scalar("p1"))
    IN  {w0, w1, flip(w0, "bad"), flip(w0, "point")}

\* element texts: two that decode to the scalars accumulated and a plain
\* permission text, which does not decode
BatchElements ==
    { encode_scalar(convert_string_to_scalar("p0")),
      encode_scalar(convert_string_to_scalar("p1")),
      "p0" }

SeqsUpTo(S, n) == UNION {[1..k -> S] : k \in 0..n}

InitBatch ==
    /\ accumulator_dlt = {}
    /\ verification_dlt = {}
    /\ now = 0
    /\ vc = None
    /\ jws = None
    /\ last = Idle
    /\ \E witnesses \in SeqsUpTo(BatchWitnesses, MaxBatch),
          elements \in SeqsUpTo(BatchElements, MaxBatch),
          parallel \in BOOLEAN :
          batch = Some([accumulator_value |-> deserialize("acc",
                                                 clone_accumulator(BatchManager)).v,
                        public_key |-> "d0",
                        witnesses |-> witnesses,
                        elements |-> elements,
                        parallel |-> parallel])
    /\ threads = <<>>
    /\ joined = 0
    /\ batch_pc = "start"
    /\ batch_result = "none"
    /\ encryption_dlt = {}
    /\ NoManager
    /\ NoDocument

\* the value the thread of pair i returns
thread_value(b, i) ==
    verify_accumulator_witness(b.accumulator_value, b.witnesses[i], b.elements[i],
                               b.public_key)

\* the entry of the call without the comparison of the two lengths
CheckLengthsSkipped ==
    /\ batch_pc = "start"
    /\ batch_pc' = IF batch[1].parallel THEN "spawn" ELSE "loop"
    /\ UNCHANGED batch_result
    /\ UNCHANGED <<batch, threads, joined>>
    /\ UNCHANGED protocol_vars
    /\ UNCHANGED pjv_vars
    /\ UNCHANGED manager_vars
    /\ UNCHANGED parse_vars

CheckLengths ==
    /\ batch_pc = "start"
    /\ IF Len(batch[1].elements) # Len(batch[1].witnesses)
       THEN batch_pc' = "done" /\ batch_result' = "LengthMismatch"
       ELSE /\ batch_pc' = IF batch[1].parallel THEN "spawn" ELSE "loop"
            /\ UNCHANGED batch_result
    /\ UNCHANGED <<batch, threads, joined>>
    /\ UNCHANGED protocol_vars
    /\ UNCHANGED pjv_vars
    /\ UNCHANGED manager_vars
    /\ UNCHANGED parse_vars

\* one iteration of the sequential loop
VerifyNext ==
    /\ batch_pc = "loop"
    /\ IF joined = Len(batch[1].witnesses)
       THEN batch_pc' = "done" /\ batch_result' = "Ok" /\ UNCHANGED joined
       ELSE LET r == thread_value(batch[1], joined + 1)
            IN  IF r # "Ok"
                THEN batch_pc' = "done" /\ batch_result' = r /\ UNCHANGED joined
                ELSE joined' = joined + 1 /\ UNCHANGED <<batch_pc, batch_result>>
    /\ UNCHANGED <<batch, threads>>
    /\ UNCHANGED protocol_vars
    /\ UNCHANGED pjv_vars
    /\ UNCHANGED manager_vars
    /\ UNCHANGED parse_vars

\* one iteration of the loop that spawns the threads
SpawnNext ==
    /\ batch_pc = "spawn"
    /\ IF Len(threads) = Len(batch[1].witnesses)
       THEN batch_pc' = "join" /\ UNCHANGED threads
       ELSE threads' = Append(threads, "running") /\ UNCHANGED batch_pc
    /\ UNCHANGED <<batch, joined, batch_result>>
    /\ UNCHANGED protocol_vars
    /\ UNCHANGED pjv_vars
    /\ UNCHANGED manager_vars
    /\ UNCHANGED parse_vars

\* thread i runs to its end and returns
ThreadReturns(i) ==
    /\ i \in 1..Len(threads)
    /\ threads[i] = "running"
    /\ threads' = [threads EXCEPT ![i] = thread_value(batch[1], i)]
    /\ UNCHANGED <<batch, joined, batch_pc, batch_result>>
    /\ UNCHANGED protocol_vars
    /\ UNCHANGED pjv_vars
    /\ UNCHANGED manager_vars
    /\ UNCHANGED parse_vars

\* the joining loop with the outcome of join dropped
JoinNextPanicDropped ==
    /\ batch_pc = "join"
    /\ IF joined = Len(threads)
       THEN batch_pc' = "done" /\ batch_result' = "Ok" /\ UNCHANGED joined
       ELSE /\ threads[joined + 1] # "running"
            /\ joined' = joined + 1 /\ UNCHANGED <<batch_pc, batch_result>>
    /\ UNCHANGED <<batch, threads>>
    /\ UNCHANGED protocol_vars
    /\ UNCHANGED pjv_vars
    /\ UNCHANGED manager_vars
    /\ UNCHANGED parse_vars

\* one iteration of the loop that joins the threads: join waits for the
\* thread to end, and is Err only when the thread panicked
JoinNext ==
    /\ batch_pc = "join"
    /\ IF joined = Len(threads)
       THEN batch_pc' = "done" /\ batch_result' = "Ok" /\ UNCHANGED joined
       ELSE /\ threads[joined + 1] # "running"
            /\ IF threads[joined + 1] = "Panic"
               THEN batch_pc' = "done" /\ batch_result' = "WorkerPanic"
                    /\ UNCHANGED joined
               ELSE joined' = joined + 1 /\ UNCHANGED <<batch_pc, batch_result>>
    /\ UNCHANGED <<batch, threads>>
    /\ UNCHANGED protocol_vars
    /\ UNCHANGED pjv_vars
    /\ UNCHANGED manager_vars
    /\ UNCHANGED parse_vars

NextBatch ==
    \/ CheckLengths
    \/ VerifyNext
    \/ SpawnNext
    \/ \E i \in 1..MaxBatch : ThreadReturns(i)
    \/ JoinNext

BatchSpec == InitBatch /\ [][NextBatch]_vars

\* thread i terminates abnormally instead of returning
ThreadPanics(i) ==
    /\ i \in 1..Len(threads)
    /\ threads[i] = "running"
    /\ threads' = [threads EXCEPT ![i] = "Panic"]
    /\ UNCHANGED <<batch, joined, batch_pc, batch_result>>
    /\ UNCHANGED protocol_vars
    /\ UNCHANGED pjv_vars
    /\ UNCHANGED manager_vars
    /\ UNCHANGED parse_vars

\* the batch verifier with worker threads that may panic
NextPanic ==
    \/ NextBatch
    \/ \E i \in 1..MaxBatch : ThreadPanics(i)

PanicSpec == InitBatch /\ [][NextPanic]_vars

(***************************************************************************)
(* The accumulator manager on its own: one manager under the key of d0,    *)
(* elements added and removed in any order, witnesses computed and kept,   *)
(* and each kept witness verified against the value of the moment.         *)
(***************************************************************************)
MaxHeld == 2

ManagerScalars == {convert_string_to_scalar(t) : t \in {"p0", "p1", "p2"}}

\* the batches add_elements is given: no scalar twice in one batch
ManagerBatches ==
    {elements \in SeqsUpTo(ManagerScalars, MaxBatch) :
        \A i, j \in 1..Len(elements) : elements[i] = elements[j] => i = j}

InitManager ==
    /\ accumulator_dlt = {}
    /\ verification_dlt = {}
    /\ now = 0
    /\ vc = None
    /\ jws = None
    /\ last = Idle
    /\ BatchIdle
    /\ encryption_dlt = {}
    /\ manager = new_manager("d0")
    /\ held = {}
    /\ NoDocument

AddElement(element) ==
    /\ last = Idle
    /\ LET r == add_element(manager, element)
       IN  /\ manager' = r.am
           /\ last' = [op |-> "add_element", elements |-> <<element>>,
                       before |-> manager, ok |-> r.ok]
    /\ UNCHANGED <<accumulator_dlt, verification_dlt, now, vc, jws, held>>
    /\ UNCHANGED batch_vars
    /\ UNCHANGED pjv_vars
    /\ UNCHANGED parse_vars

AddElements(elements) ==
    /\ last = Idle
    /\ LET r == add_elements(manager, elements)
       IN  /\ manager' = r.am
           /\ last' = [op |-> "add_elements", elements |-> elements,
                       before |-> manager, ok |-> r.ok]
    /\ UNCHANGED <<accumulator_dlt, verification_dlt, now, vc, jws, held>>
    /\ UNCHANGED batch_vars
    /\ UNCHANGED pjv_vars
    /\ UNCHANGED parse_vars

RemoveElement(element) ==
    /\ last = Idle
    /\ LET r == remove_element(manager, element)
       IN  /\ manager' = r.am
           /\ last' = [op |-> "remove_element", elements |-> <<element>>,
                       before |-> manager, ok |-> r.ok]
    /\ UNCHANGED <<accumulator_dlt, verification_dlt, now, vc, jws, held>>
    /\ UNCHANGED batch_vars
    /\ UNCHANGED pjv_vars
    /\ UNCHANGED parse_vars

\* a witness is computed and kept, with the value it was computed for
ComputeWitness(element) ==
    /\ last = Idle
    /\ Cardinality(held) < MaxHeld
    /\ held' = held \cup {[element |-> element,
                           witness |-> compute_witness(manager, element),
                           accumulator_value |-> clone_accumulator(manager),
                           accumulated |-> in_memory_has(manager.state, element)]}
    /\ UNCHANGED <<accumulator_dlt, verification_dlt, now, vc, jws, last, manager>>
    /\ UNCHANGED batch_vars
    /\ UNCHANGED pjv_vars
    /\ UNCHANGED parse_vars

\* a kept witness is verified against the value of the moment
VerifyWitness(h) ==
    /\ last = Idle
    /\ last' = [op |-> "verify_accumulator_witness", h |-> h,
                res |-> verify_accumulator_witness(
                            deserialize("acc", clone_accumulator(manager)).v, h.witness,
                            encode_scalar(h.element), manager.secret_key)]
    /\ UNCHANGED <<accumulator_dlt, verification_dlt, now, vc, jws, manager, held>>
    /\ UNCHANGED batch_vars
    /\ UNCHANGED pjv_vars
    /\ UNCHANGED parse_vars

ManagerReturn ==
    /\ last # Idle
    /\ last' = Idle
    /\ UNCHANGED <<accumulator_dlt, verification_dlt, now, vc, jws, manager, held>>
    /\ UNCHANGED batch_vars
    /\ UNCHANGED pjv_vars
    /\ UNCHANGED parse_vars

ManagerNext ==
    \/ \E element \in ManagerScalars : AddElement(element)
    \/ \E elements \in ManagerBatches : AddElements(elements)
    \/ \E element \in ManagerScalars : RemoveElement(element)
    \/ \E element \in ManagerScalars : ComputeWitness(element)
    \/ \E h \in held : VerifyWitness(h)
    \/ ManagerReturn

ManagerSpec == InitManager /\ [][ManagerNext]_vars

(***************************************************************************)
(* The accumulator scheme with parent credentials that did not come from   *)
(* an issuance as they are: the holder of the credential in hand takes     *)
(* away its last permission witness, once, before it is given to an        *)
(* issuance as parent.                                                     *)
(***************************************************************************)
\* the credential in hand, one permission witness short
MalformParent ==
    /\ last = Idle
    /\ encryption_dlt = {}
    /\ jws = None
    /\ vc # None
    /\ Len(vc[1].credential.permission_witnesses) = Len(vc[1].credential.permissions)
    /\ Len(vc[1].credential.hierarchy) < MaxDepth
    /\ vc' = Some([vc[1] EXCEPT !.credential.permission_witnesses =
                       SubSeq(@, 1, Len(@) - 1)])
    /\ UNCHANGED <<accumulator_dlt, verification_dlt, now, jws, last>>
    /\ UNCHANGED batch_vars
    /\ UNCHANGED pjv_vars
    /\ UNCHANGED manager_vars
    /\ UNCHANGED parse_vars

MalformedNext ==
    \/ Next
    \/ MalformParent

MalformedSpec == Init /\ [][MalformedNext]_vars

(***************************************************************************)
(* Deserialization of a credential document (serde_json::from_value).  A   *)
(* JSON object is the set of the attribute names it carries; a struct is   *)
(* deserialized from an object that carries every one of its fields under  *)
(* the name serde gives the field, and attributes of other names are       *)
(* ignored.  raw_vc is the document: the names in its credentialSubject    *)
(* and the names in each entry of its hierarchy.                           *)
(***************************************************************************)
\* most entries in the hierarchy of a document
MaxEntries == 3

\* the attributes of VerifiableCredential, as serde names them
VerifiableCredentialNames ==
    {"@context", "type", "id", "issuer", "validFrom", "credentialSubject"}

\* the fields of OurDelegationCredential and the name serde gives each
OurDelegationCredentialRename ==
    ("delegatee_id" :> "sub") @@ ("accumulator_value" :> "av") @@
    ("iat" :> "iat") @@ ("exp" :> "exp") @@ ("permissions" :> "per") @@
    ("metadata_witnesses" :> "mw") @@ ("permission_witnesses" :> "pw") @@
    ("hierarchy" :> "hierarchy")

\* the fields of OurDelegator and the name serde gives each
OurDelegatorRename ==
    ("id" :> "id") @@ ("delegatee_id" :> "sub") @@ ("iat" :> "iat") @@
    ("exp" :> "exp") @@ ("accumulator_value" :> "av") @@
    ("metadata_witnesses" :> "mw") @@ ("permission_witnesses" :> "pw")

\* an object deserializes into a struct when no field of the struct is missing
has_every_field(names, rename) ==
    \A field \in DOMAIN rename : rename[field] \in names

\* serde_json::from_value::<VerifiableCredential<OurDelegationCredential>>
from_value_vc(document) ==
    IF /\ VerifiableCredentialNames \subseteq document.names
       /\ has_every_field(document.credentialSubject, OurDelegationCredentialRename)
       /\ \A i \in 1..Len(document.hierarchy) :
              has_every_field(document.hierarchy[i], OurDelegatorRename)
    THEN "Ok"
    ELSE "MissingField"

\* the attribute names of an object that writes the fields in written under
\* the name of the field and the others under the name serde gives them
names_written(rename, written) ==
    {IF field \in written THEN field ELSE rename[field] : field \in DOMAIN rename}

RawSubjects ==
    {names_written(OurDelegationCredentialRename, written) :
        written \in SUBSET {"delegatee_id", "accumulator_value", "permissions",
                            "metadata_witnesses", "permission_witnesses"}}

RawEntries ==
    {names_written(OurDelegatorRename, written) :
        written \in {{}, DOMAIN OurDelegatorRename}}

RawDocuments ==
    [names : {VerifiableCredentialNames},
     credentialSubject : RawSubjects,
     hierarchy : SeqsUpTo(RawEntries, MaxEntries)]

InitParse ==
    /\ accumulator_dlt = {}
    /\ verification_dlt = {}
    /\ now = 0
    /\ vc = None
    /\ jws = None
    /\ last = Idle
    /\ BatchIdle
    /\ encryption_dlt = {}
    /\ NoManager
    /\ raw_vc \in RawDocuments

\* tests::parse_dc, for one document
ParseDc ==
    /\ last = Idle
    /\ last' = [op |-> "parse_dc", res |-> from_value_vc(raw_vc)]
    /\ UNCHANGED <<accumulator_dlt, verification_dlt, now, vc, jws>>
    /\ UNCHANGED batch_vars
    /\ UNCHANGED pjv_vars
    /\ UNCHANGED manager_vars
    /\ UNCHANGED parse_vars

ParseNext == ParseDc

ParseSpec == InitParse /\ [][ParseNext]_vars

(***************************************************************************)
(* Properties.                                                             *)
(***************************************************************************)
\* the presentation that a verification in progress was called with
verified_vp == from_value(jws[1].payload).v

Verifying == last.op = "verify"
Accepted == Verifying /\ last.res = "Ok"

\* witness is a membership witness of the scalar of text in the accumulator
\* accumulator_value, under the key of issuer
valid_witness(accumulator_value, witness, text, issuer) ==
    LET a == deserialize("acc", accumulator_value)
        w == deserialize("wit", witness)
    IN  /\ a.ok
        /\ w.ok
        /\ verify_membership(a.v, convert_string_to_scalar(text), w.v, issuer)

\* every metadata witness and every permission witness of a level is valid
valid_level(delegation, issuer, permissions) ==
    LET metadata == << delegation.delegatee_id, delegation.iat, delegation.exp >>
    IN  /\ Len(delegation.metadata_witnesses) = 3
        /\ \A i \in 1..3 :
               valid_witness(delegation.accumulator_value,
                             delegation.metadata_witnesses[i], metadata[i], issuer)
        /\ Len(delegation.permission_witnesses) = Len(permissions)
        /\ \A i \in 1..Len(permissions) :
               valid_witness(delegation.accumulator_value,
                             delegation.permission_witnesses[i], permissions[i], issuer)

all_levels_valid(vp) ==
    /\ valid_level(vp.credential, vp.issuer, vp.credential.permissions)
    /\ \A k \in 1..Len(vp.credential.hierarchy) :
           valid_level(vp.credential.hierarchy[k], vp.credential.hierarchy[k].id,
                       vp.credential.permissions)

\* C1: a Scheme A verification, sequential or parallel, returns Ok only if
\* every metadata witness and every permission witness of the credential
\* and of every hierarchy entry is a valid membership witness of its
\* element in the accumulator of its level, and a presentation in which one
\* permission witness was altered is rejected.
C1_AcceptedOnlyWithValidWitnesses ==
    Verifying =>
        /\ last.res = "Ok" => all_levels_valid(verified_vp)
        /\ ~Unaltered => last.res # "Ok"

\* the outcome of the sequential call on the batch
sequential_outcome ==
    verify_accumulator_witnesses(batch[1].accumulator_value, batch[1].public_key,
                                 batch[1].witnesses, batch[1].elements, FALSE)

\* C2: for every batch and every order in which the threads finish, the
\* parallel call of verify_accumulator_witnesses returns Ok exactly when the
\* sequential call does: when a pair fails to deserialize or fails the
\* membership check, the parallel call returns an error.
C2_ParallelAgreesWithSequential ==
    (batch_pc = "done" /\ batch[1].parallel)
        => (batch_result = "Ok" <=> sequential_outcome = "Ok")

no_duplicates(seq) == \A i, j \in 1..Len(seq) : seq[i] = seq[j] => i = j

\* the credential of a chain in which every issuance asked for a subset of
\* the parent's permissions in the parent's order: no permission is
\* repeated, every level has one valid witness per permission, and each
\* level was issued to the issuer of the next
narrowing_chain(v) ==
    LET h == v.credential.hierarchy
    IN  /\ no_duplicates(v.credential.permissions)
        /\ all_levels_valid(v)
        /\ \A k \in 1..Len(h) :
               h[k].delegatee_id = (IF k = Len(h) THEN v.issuer ELSE h[k + 1].id)

in_window(delegation, t) == verify_timings(t, delegation.iat, delegation.exp) = "Ok"

all_in_window(v, t) ==
    /\ in_window(v.credential, t)
    /\ \A k \in 1..Len(v.credential.hierarchy) : in_window(v.credential.hierarchy[k], t)

\* C3: the presentation of a non-empty subset of the permissions of the last
\* credential of a chain of registered issuers, each narrowing the
\* permissions of the one before, signed by a registered presenter, is
\* accepted while every credential is within its validity window, with
\* parallel false and with parallel true.
C3_HonestChainAccepted ==
    (/\ Verifying
     /\ Unaltered
     /\ last.presenter_id = jws[1].signature.key
     /\ narrowing_chain(vc[1])
     /\ all_in_window(vc[1], now))
        => last.res = "Ok"

\* the texts a presentation carries for the verifier to check
carried_texts(vp) ==
    LET texts(d) == {d.delegatee_id, d.iat, d.exp}
    IN  {vp.credential.permissions[i] : i \in 1..Len(vp.credential.permissions)}
        \cup texts(vp.credential)
        \cup UNION {texts(vp.credential.hierarchy[k]) :
                        k \in 1..Len(vp.credential.hierarchy)}

\* C4: the scalar the verifier checks a witness for is the scalar the issuer
\* accumulated: convert_string_to_scalar of the permission or metadata text
\* the credential carries.
C4_VerifierHashesTexts ==
    Verifying =>
        \A text \in carried_texts(verified_vp) :
            /\ element_value(text).ok
            /\ element_value(text).v = convert_string_to_scalar(text)

\* C5: in the hierarchy walk the witnesses of entry Dk are verified with the
\* key material the directory holds for Dk.id, and those of the credential
\* itself with the entry of vp.issuer.
C5_LevelVerifiedWithItsIssuer ==
    Verifying =>
        \A n \in 1..Len(last.log) :
            last.log[n].issuer =
                (IF last.log[n].level = 0 THEN verified_vp.issuer
                 ELSE verified_vp.credential.hierarchy[last.log[n].level].id)

\* entry k of the hierarchy was not issued to the issuer of the level after it
broken_at(vp, k) ==
    LET h == vp.credential.hierarchy
    IN  h[k].delegatee_id # (IF k = Len(h) THEN vp.issuer ELSE h[k + 1].id)

Issuing == last.op = "issue"
IssuingWithParent == Issuing /\ last.parent # None

\* C7: the exp of a credential issued with a parent is at most the exp of
\* the parent credential and at most the exp of every entry of the parent's
\* hierarchy, whatever the validity period.
C7_ExpiryMonotone ==
    (IssuingWithParent /\ last.res = "Ok") =>
        LET parent == last.parent[1].credential
            exp == from_str(last.out[1].credential.exp)
        IN  /\ exp <= from_str(parent.exp)
            /\ \A k \in 1..Len(parent.hierarchy) : exp <= from_str(parent.hierarchy[k].exp)

\* some requested permission is not one of the parent's
asks_beyond_parent ==
    \E i \in 1..Len(last.permissions) :
        ~contains(last.parent[1].credential.permissions, last.permissions[i])

\* C8 as stated: an issuance with a parent that asks for a permission the
\* parent credential does not have fails with the permission-not-granted
\* error and returns no credential.
C8_Stated ==
    (IssuingWithParent /\ asks_beyond_parent) =>
        (last.res = "PermissionNotGranted" /\ last.out = None)

\* the exp the issuance computes is its iat: the two timestamps are one
\* element, which the accumulator refuses to add twice
exp_is_iat ==
    lowest_exp(last.t + last.validity_period, last.parent[1].credential.hierarchy, 1)
        = last.t

\* C8: an issuance with a parent that asks for a permission the parent
\* credential does not have returns no credential; the error is the
\* permission-not-granted one, unless the accumulation that precedes the
\* test failed because exp and iat are the same text, in which case the
\* accumulator's element-present error is returned.
C8_NoCredentialBeyondParent ==
    (IssuingWithParent /\ asks_beyond_parent) =>
        /\ last.out = None
        /\ vc = last.parent
        /\ last.res = (IF exp_is_iat THEN "ElementPresent" ELSE "PermissionNotGranted")

\* a descendant of a credential narrowed to p0 asks for p0 and p1
C8_Witness ==
    /\ IssuingWithParent
    /\ Len(last.parent[1].credential.hierarchy) >= 1
    /\ last.parent[1].credential.permissions = <<"p0">>
    /\ last.permissions = <<"p0", "p1">>
    /\ last.res = "PermissionNotGranted"

escalation_case ==
    /\ IssuingWithParent
    /\ last.parent[1].credential.permissions = <<"p0", "p1", "p2">>
    /\ last.permissions = <<"p0", "p1", "p2", "p3">>

parent_cardinality_ok ==
    LET parent == last.parent[1].credential
    IN  /\ Len(parent.permission_witnesses) = Len(parent.permissions)
        /\ \A k \in 1..Len(parent.hierarchy) :
               Len(parent.hierarchy[k].permission_witnesses) = Len(parent.permissions)

Presenting == last.op = "present"

\* the lists of a credential satisfy the cardinality invariant
cardinality_invariant(credential) ==
    /\ Len(credential.permission_witnesses) = Len(credential.permissions)
    /\ \A k \in 1..Len(credential.hierarchy) :
           Len(credential.hierarchy[k].permission_witnesses) = Len(credential.permissions)

subset_of(disclosed, permissions) ==
    \A i \in 1..Len(disclosed) : contains(permissions, disclosed[i])

\* the 1-based indices, ascending, of the permissions that are in disclosed
RECURSIVE kept_indices(_, _, _)
kept_indices(permissions, disclosed, i) ==
    IF i > Len(permissions) THEN <<>>
    ELSE (IF contains(disclosed, permissions[i]) THEN <<i>> ELSE <<>>)
         \o kept_indices(permissions, disclosed, i + 1)

pick(seq, indices) == [n \in 1..Len(indices) |-> seq[indices[n]]]

\* C10: retain_only(D) of a credential that satisfies the cardinality
\* invariant, D a subset of its permissions, leaves as many permission
\* witnesses as permissions on the credential and on every hierarchy entry,
\* and the witness at each index is the one that was paired with the kept
\* permission before the call.
C10_RetainOnlyLockstep ==
    (/\ Presenting
     /\ cardinality_invariant(vc[1].credential)
     /\ subset_of(last.disclosed, vc[1].credential.permissions))
        => /\ last.res = "Ok"
           /\ LET before == vc[1].credential
                  after == from_value(jws[1].payload).v.credential
                  kept == kept_indices(before.permissions, last.disclosed, 1)
              IN  /\ after.permissions = pick(before.permissions, kept)
                  /\ after.permission_witnesses = pick(before.permission_witnesses, kept)
                  /\ Len(after.permission_witnesses) = Len(after.permissions)
                  /\ Len(after.hierarchy) = Len(before.hierarchy)
                  /\ \A k \in 1..Len(before.hierarchy) :
                         /\ after.hierarchy[k].permission_witnesses
                                = pick(before.hierarchy[k].permission_witnesses, kept)
                         /\ Len(after.hierarchy[k].permission_witnesses)
                                = Len(after.permissions)

\* p0 is retained of a credential with three permissions and a hierarchy
C10_Witness ==
    /\ Presenting
    /\ last.res = "Ok"
    /\ cardinality_invariant(vc[1].credential)
    /\ vc[1].credential.permissions = <<"p0", "p1", "p2">>
    /\ Len(vc[1].credential.hierarchy) >= 1
    /\ last.disclosed = <<"p0">>

(***************************************************************************)
(* Properties of the signature-and-encryption scheme                       *)
(***************************************************************************)
PJVVerifying == last.op = "pjv_verify"
PJVAccepted == PJVVerifying /\ last.res = "Ok"

\* the credentials of the presentation being verified, the outermost first
PresentedChain == chain_of(from_value(jws[1].payload).v.credential)

\* the credential's timing is valid at the clock's reading
PJVTimely(credential) ==
    verify_timings(now, credential.delegator.iat, credential.delegator.exp) = "Ok"

\* the presentation is of the chain d0 -> d1 -> d2 -> d3 owned by d0, every
\* credential granting p0, p1, p2 and valid now, the outermost narrowed to p1
OwnerRootedChain ==
    /\ jws # None
    /\ PJVUnaltered
    /\ LET c == PresentedChain
       IN  /\ Len(c) = 3
           /\ \A k \in 1..3 :
                 /\ c[k].delegator.owner = "d0"
                 /\ c[k].delegator.iss = PJVOrder[4 - k]
                 /\ c[k].delegator.sub = PJVOrder[5 - k]
                 /\ c[k].delegator.operations =
                       IF k = 1 THEN <<"p1">> ELSE <<"p0", "p1", "p2">>
                 /\ PJVTimely(c[k])

\* C11: when the owner d0 roots the chain d0 -> d1 -> d2 -> d3, each
\* credential granting p0, p1, p2, and d3, the subject of the last
\* credential, presents it disclosing p1, d0's verification of the
\* presentation for the presenter d3 succeeds.
C11_SubjectPresentationAccepted ==
    (/\ PJVVerifying
     /\ OwnerRootedChain
     /\ jws[1].signature.key = "d3"
     /\ last.self = "d0"
     /\ last.presenter_id = "d3")
    => last.res = "Ok"

\* the operations of the credential, as a set
operations_of(credential) ==
    {credential.delegator.operations[i] : i \in 1..Len(credential.delegator.operations)}

\* C12: a presentation is accepted only if, at every level whose hierarchy
\* is not empty, every operation of the delegator is among the operations of
\* the parent its hierarchy holds; so the operations of an accepted
\* presentation are among those the root credential granted.
C12_AcceptedOperationsInherited ==
    PJVAccepted =>
        LET c == PresentedChain
        IN  /\ \A k \in 1..(Len(c) - 1) : operations_of(c[k]) \subseteq operations_of(c[k + 1])
            /\ operations_of(c[1]) \subseteq operations_of(c[Len(c)])

C12_Witness ==
    /\ PJVAccepted
    /\ Len(PresentedChain) = 3
    /\ operations_of(PresentedChain[1]) # operations_of(PresentedChain[3])

\* the credential carries the signature of its issuer over its serialized
\* delegator
signed_by_issuer(credential) ==
    credential.signature.signature =
        encode_signature([key |-> credential.delegator.iss,
                          msg |-> to_json("PJVDelegator", credential.delegator)])

\* C13: a presentation is accepted only if the outermost credential and
\* every ancestor decrypted from a hierarchy carries the signature of its
\* iss, registered in the directory, over its serialized delegator; a chain
\* with an altered signature at any depth is rejected.
C13_AcceptedChainIsSigned ==
    PJVVerifying =>
        \A k \in 1..Len(PresentedChain) :
            (~signed_by_issuer(PresentedChain[k])
               \/ PresentedChain[k].delegator.iss \notin verification_dlt)
            => last.res # "Ok"

C13_Witness ==
    /\ PJVVerifying
    /\ Len(PresentedChain) = 3
    /\ signed_by_issuer(PresentedChain[1])
    /\ signed_by_issuer(PresentedChain[2])
    /\ ~signed_by_issuer(PresentedChain[3])
    /\ last.res = "JWSInvalid"
    /\ last.verified = 2

\* the credential of the presented chain whose hierarchy is empty
Terminal == PresentedChain[Len(PresentedChain)]

\* the owner or the issuer of the terminal credential is not the verifier
RootMismatch ==
    \/ Terminal.delegator.owner # last.self
    \/ Terminal.delegator.iss # last.self

\* every check that precedes the test of the terminal credential passes:
\* the presentation carries the presenter's signature, every credential of
\* the chain is valid now and signed by its registered issuer, and every
\* hierarchy is encrypted for the verifier
ReachesTerminal ==
    /\ last.presenter_id \in verification_dlt
    /\ from_signed_jwt(jws[1], last.presenter_id).ok
    /\ \A k \in 1..Len(PresentedChain) :
          /\ PJVTimely(PresentedChain[k])
          /\ PresentedChain[k].delegator.iss \in verification_dlt
          /\ signed_by_issuer(PresentedChain[k])
    /\ \A k \in 1..(Len(PresentedChain) - 1) :
          jwe_decrypt(PresentedChain[k].delegator.hierarchy[1], last.self).ok

\* C14, as stated: a chain is accepted only if the owner and the issuer of
\* its terminal credential are the verifier, and a terminal credential whose
\* owner or issuer differs from the verifier is rejected with the
\* invalid-root error.
C14_Stated ==
    PJVVerifying =>
        /\ last.res = "Ok" => ~RootMismatch
        /\ RootMismatch => last.res = "InvalidRoot"

\* C14, amended: a chain is accepted only if the owner and the issuer of its
\* terminal credential are the verifier; the invalid-root error is returned
\* only for such a terminal credential, and it is the error returned whenever
\* verification reaches the terminal credential, every earlier check of
\* every level having passed.
C14_RootIsVerifier ==
    PJVVerifying =>
        /\ RootMismatch => last.res # "Ok"
        /\ last.res = "InvalidRoot" => RootMismatch
        /\ (RootMismatch /\ ReachesTerminal) => last.res = "InvalidRoot"

C14_Witness ==
    /\ PJVVerifying
    /\ Len(PresentedChain) = 3
    /\ RootMismatch
    /\ ReachesTerminal
    /\ last.res = "InvalidRoot"

\* the credential at level k was not issued by the subject of its parent
BrokenAt(k) == PresentedChain[k].delegator.iss # PresentedChain[k + 1].delegator.sub

Broken == \E k \in 1..(Len(PresentedChain) - 1) : BrokenAt(k)

\* the operations of every credential are among those of its parent
AllInherited ==
    \A k \in 1..(Len(PresentedChain) - 1) :
        operations_of(PresentedChain[k]) \subseteq operations_of(PresentedChain[k + 1])

\* C15, as stated: a chain is accepted only if, at every level whose
\* hierarchy is not empty, the iss of the delegator is the sub of the parent
\* its hierarchy holds; otherwise verification fails with the chain-broken
\* error.
C15_Stated ==
    PJVVerifying =>
        /\ last.res = "Ok" => ~Broken
        /\ Broken => last.res = "ChainBroken"

\* C15, amended: a chain is accepted only if every credential with a parent
\* was issued by the subject of that parent; the chain-broken error is
\* returned only for a chain that is not so linked, and it is the error
\* returned whenever every other check of every level passes.
C15_ChainIsLinked ==
    PJVVerifying =>
        /\ Broken => last.res # "Ok"
        /\ last.res = "ChainBroken" => Broken
        /\ (Broken /\ ReachesTerminal /\ ~RootMismatch /\ AllInherited)
               => last.res = "ChainBroken"

C15_Witness ==
    /\ PJVVerifying
    /\ Len(PresentedChain) = 3
    /\ Broken
    /\ last.res = "ChainBroken"

\* the hierarchy of the credential at level k is encrypted for a key that
\* is not the verifier's
ForeignAt(k) == PresentedChain[k].delegator.hierarchy[1].recipient # last.self

Foreign == \E k \in 1..(Len(PresentedChain) - 1) : ForeignAt(k)

\* the checks of the outermost credential that precede decryption pass
ReachesDecryption ==
    /\ last.presenter_id \in verification_dlt
    /\ from_signed_jwt(jws[1], last.presenter_id).ok
    /\ PJVTimely(PresentedChain[1])
    /\ PresentedChain[1].delegator.iss \in verification_dlt
    /\ signed_by_issuer(PresentedChain[1])

\* C16, as stated: the verification, by a delegator that is not the owner
\* the hierarchy was encrypted for, of any presentation whose hierarchy is
\* not empty fails with the JWE error.
C16_Stated ==
    (PJVVerifying /\ Len(PresentedChain) > 1 /\ ForeignAt(1))
    => last.res = "JWEInvalid"

\* C16, amended: a delegator never accepts a presentation with a hierarchy
\* encrypted for a key other than its own; the JWE error is returned only
\* for such a presentation, and it is the error returned whenever the
\* presentation's own signature and the timing and signature of the
\* outermost credential are valid.
C16_ForeignHierarchyRejected ==
    PJVVerifying =>
        /\ Foreign => last.res # "Ok"
        /\ last.res = "JWEInvalid" => Foreign
        /\ (Len(PresentedChain) > 1 /\ ForeignAt(1) /\ ReachesDecryption)
               => last.res = "JWEInvalid"

C16_Witness ==
    /\ PJVVerifying
    /\ Len(PresentedChain) = 3
    /\ ForeignAt(1)
    /\ last.res = "JWEInvalid"

\* the clock's reading t lies between the instants the texts iat and exp
\* denote
within(iat, exp, t) ==
    /\ from_str(iat) # -1
    /\ from_str(exp) # -1
    /\ from_str(iat) <= t
    /\ t <= from_str(exp)

\* C17: both verifiers check the timing of every credential of the chain
\* (the accumulator scheme: every hierarchy entry and the outer credential;
\* the signature-and-encryption scheme: the outer credential and every
\* decrypted ancestor) against the one reading of the clock the verification
\* took, and reject the presentation when for any of them now > exp or
\* now < iat.
C17_EveryCredentialTimed ==
    /\ Accepted =>
          /\ within(verified_vp.credential.iat, verified_vp.credential.exp, now)
          /\ \A k \in 1..Len(verified_vp.credential.hierarchy) :
                within(verified_vp.credential.hierarchy[k].iat,
                       verified_vp.credential.hierarchy[k].exp, now)
    /\ PJVAccepted =>
          \A k \in 1..Len(PresentedChain) :
              within(PresentedChain[k].delegator.iat, PresentedChain[k].delegator.exp, now)

\* the expiry of the innermost ancestor is found after the two credentials
\* above it passed
C17_Witness ==
    /\ PJVVerifying
    /\ Len(PresentedChain) = 3
    /\ \A k \in 1..2 :
          within(PresentedChain[k].delegator.iat, PresentedChain[k].delegator.exp, now)
    /\ from_str(PresentedChain[3].delegator.exp) < now
    /\ last.res = "Expired"
    /\ last.verified = 2

\* the accumulator scheme's case: an expired hierarchy entry under an outer
\* credential that is still valid
C17_WitnessOfExpiredEntry ==
    /\ Verifying
    /\ Len(verified_vp.credential.hierarchy) > 0
    /\ within(verified_vp.credential.iat, verified_vp.credential.exp, now)
    /\ \E k \in 1..Len(verified_vp.credential.hierarchy) :
          from_str(verified_vp.credential.hierarchy[k].exp) < now
    /\ last.res = "Expired"

(***************************************************************************)
(* Properties of the timing validator and of the presentation envelope     *)
(***************************************************************************)
TimingChecked == last.op = "verify_timings"

\* C18: verify_timings(now, iat, exp) returns Ok exactly when iat and exp
\* are both the decimal text of an unsigned integer and iat <= now <= exp;
\* in every other case it returns an error.
C18_OkExactlyWithinWindow ==
    TimingChecked =>
        (last.res = "Ok" <=>
            \E i \in 0..MaxTime, e \in 0..MaxTime :
                /\ to_string(i) = last.iat
                /\ to_string(e) = last.exp
                /\ i <= now
                /\ now <= e)

\* both ends of the window are inclusive
C18_Witness ==
    /\ TimingChecked
    /\ last.iat = to_string(now)
    /\ last.exp = to_string(now)
    /\ last.res = "Ok"

\* C19: for every now, iat and exp with iat and exp decimal and iat > exp,
\* verify_timings fails with the Inverted error, distinct from NotYetValid
\* and from Expired.
C19_InvertedReported ==
    (/\ TimingChecked
     /\ from_str(last.iat) # -1
     /\ from_str(last.exp) # -1
     /\ from_str(last.iat) > from_str(last.exp))
    => last.res = "Inverted"

\* the Inverted branch is never taken: whenever iat > exp, now < iat or
\* now > exp holds and is tested first
InvertedNeverReturned == TimingChecked => last.res # "Inverted"

\* the keys of the delegators of both schemes
AllKeys == Ids \cup PJVIds

\* payloads that differ from payload in the issuer, in the credential or by
\* a claim more
ChangedPayloads(payload) ==
    ({[payload EXCEPT !["issuer"] = x] : x \in AllKeys}
        \cup {[payload EXCEPT !["credentialSubject"] = vc[1].credential]}
        \cup {payload @@ ("nonce" :> "n")})
    \ {payload}

\* the presentation in flight is vp signed with the key k; verified with k
\* it yields vp again, and it does not verify with another key nor with a
\* changed payload
RoundTrips(vp, k) ==
    /\ jws = Some(to_signed_jwt(vp, k))
    /\ from_signed_jwt(jws[1], k) = [ok |-> TRUE, vp |-> vp]
    /\ \A other \in AllKeys \ {k} : ~from_signed_jwt(jws[1], other).ok
    /\ \A payload \in ChangedPayloads(jws[1].payload) :
          ~from_signed_jwt([jws[1] EXCEPT !.payload = payload], k).ok

\* the presentation the signature-and-encryption scheme signs: the narrowed
\* credential with its delegator signed by the presenter
PJVPresented ==
    LET vp == pjv_from_verifiable_credential(vc[1], last.disclosed).vp[1]
    IN  [vp EXCEPT !.credential.signature = sign_delegator(last.self, vp.credential.delegator)]

PJVPresenting == last.op = "pjv_present"

\* no entry of list is in disclosed
NoneDisclosed(list, disclosed) == \A i \in 1..Len(list) : ~contains(disclosed, list[i])

\* C21: presentation issuance is refused, and no signed presentation is
\* produced, whenever the credential is empty after retain_only(disclosed):
\* in the accumulator scheme when no permission of the credential is in the
\* disclosed list, in the signature-and-encryption scheme when no operation
\* is in the disclosed list or the resource is the empty text.
C21_EmptyPresentationRefused ==
    /\ (Presenting /\ NoneDisclosed(vc[1].credential.permissions, last.disclosed))
          => /\ jws = None
             /\ last.res # "Ok"
             /\ ~retain_only(vc[1].credential, last.disclosed).panicked
                   => last.res = "EmptyPresentation"
    /\ (PJVPresenting
           /\ (\/ NoneDisclosed(vc[1].credential.delegator.operations, last.disclosed)
               \/ vc[1].credential.delegator.resource_uri = ""))
          => (last.res = "EmptyPresentation" /\ jws = None)

\* a chain issued for the empty resource, one of whose operations is disclosed
C21_WitnessOfEmptyResource ==
    /\ PJVPresenting
    /\ Len(chain_of(vc[1].credential)) = 3
    /\ vc[1].credential.delegator.resource_uri = ""
    /\ ~NoneDisclosed(vc[1].credential.delegator.operations, last.disclosed)
    /\ last.res = "EmptyPresentation"
    /\ jws = None

\* the accumulator scheme's case: a credential with a hierarchy, none of
\* whose permissions is disclosed
C21_Witness ==
    /\ Presenting
    /\ Len(vc[1].credential.hierarchy) > 0
    /\ NoneDisclosed(vc[1].credential.permissions, last.disclosed)
    /\ last.res = "EmptyPresentation"
    /\ jws = None

\* the entries of list that are in allowed, in the order of list
kept_of(list, allowed) == pick(list, kept_indices(list, allowed, 1))

\* removed holds, in strictly ascending order, exactly the 0-based indices of
\* the entries of list that are not in allowed
removed_of(removed, list, allowed) ==
    /\ \A m, n \in 1..Len(removed) : m < n => removed[m] < removed[n]
    /\ {removed[n] : n \in 1..Len(removed)}
           = {i \in 0..(Len(list) - 1) : ~contains(allowed, list[i + 1])}

\* C22: retain_only(allowed) keeps exactly the permissions (accumulator
\* scheme) or operations (signature-and-encryption scheme) that are in
\* allowed, in their original relative order, and returns the indices of the
\* removed ones, relative to the list before the call, in strictly ascending
\* order.
C22_RetainOnlyKeepsAllowed ==
    /\ Presenting =>
          LET before == vc[1].credential.permissions
              r == retain_only(vc[1].credential, last.disclosed)
          IN  /\ ~r.panicked =>
                    /\ r.credential.permissions = kept_of(before, last.disclosed)
                    /\ removed_of(r.removed, before, last.disclosed)
              /\ last.res = "Ok" =>
                    verified_vp.credential.permissions = kept_of(before, last.disclosed)
    /\ PJVPresenting =>
          LET before == vc[1].credential.delegator.operations
              r == pjv_retain_only(vc[1].credential, last.disclosed)
          IN  /\ r.credential.delegator.operations = kept_of(before, last.disclosed)
              /\ removed_of(r.removed, before, last.disclosed)
              /\ last.res = "Ok" =>
                    verified_vp.credential.delegator.operations
                        = kept_of(before, last.disclosed)

\* the first and the last of three operations are removed
C22_Witness ==
    /\ PJVPresenting
    /\ last.res = "Ok"
    /\ vc[1].credential.delegator.operations = <<"p0", "p1", "p2">>
    /\ pjv_retain_only(vc[1].credential, last.disclosed).removed = <<0, 2>>
    /\ verified_vp.credential.delegator.operations = <<"p1">>

WitnessVerified == last.op = "verify_accumulator_witness"

\* the accumulator value of the moment, as the manager serializes it
CurrentValue == clone_accumulator(manager)

BatchAdded == last.op = "add_elements"

directories == <<accumulator_dlt, verification_dlt, encryption_dlt>>

SchemeCalls == {"issue", "present", "verify", "pjv_issue", "pjv_present", "pjv_verify"}

\* C25: credential issuance, presentation issuance and verification, in
\* both schemes, leave the three key directories as they were, whether the
\* call succeeds or fails; the directories change only when an issuer is
\* constructed, which adds the entries of that one issuer; and an issuance
\* that fails changes neither the credential in hand, nor the presentation,
\* nor the clock.
C25_CallsLeaveDirectories ==
    [][ /\ (last = Idle /\ last'.op \in SchemeCalls)
            => /\ directories' = directories
               /\ (last'.op \in {"issue", "pjv_issue"} /\ last'.res # "Ok")
                     => (vc' = vc /\ jws' = jws /\ now' = now)
        /\ directories' # directories
            => /\ last = Idle /\ last' = Idle
               /\ vc' = vc /\ jws' = jws /\ now' = now
               /\ \E id \in Ids \cup PJVIds :
                     /\ id \notin verification_dlt
                     /\ verification_dlt' = verification_dlt \cup {id}
                     /\ accumulator_dlt' \in {accumulator_dlt, accumulator_dlt \cup {id}}
                     /\ encryption_dlt' \in {encryption_dlt, encryption_dlt \cup {id}}
      ]_vars

\* an issuance from a parent credential has failed, to a delegatee that has
\* published no key; the parent is still the credential in hand
C25_Witness ==
    /\ last.op = "issue"
    /\ last.res # "Ok"
    /\ last.parent # None
    /\ vc = last.parent
    /\ now = last.t
    /\ last.delegatee_id \notin verification_dlt
    /\ last.self \in verification_dlt

LengthsDiffer == Len(batch[1].witnesses) # Len(batch[1].elements)

\* C26: when the number of witnesses differs from the number of elements,
\* verify_accumulator_witnesses ends with the length-mismatch error, for
\* parallel and for sequential verification alike, having verified no pair
\* and spawned no thread.
C26_LengthMismatchFirst ==
    (batch # None /\ LengthsDiffer) =>
        /\ batch_pc \in {"start", "done"}
        /\ threads = <<>>
        /\ joined = 0
        /\ batch_pc = "done" => batch_result = "LengthMismatch"

\* a parallel call with one witness more than elements has ended
C26_Witness ==
    /\ batch # None
    /\ batch[1].parallel
    /\ Len(batch[1].witnesses) = Len(batch[1].elements) + 1
    /\ batch_pc = "done"
    /\ batch_result = "LengthMismatch"
    /\ threads = <<>>

\* the same for a sequential call with one element more than witnesses
C26_WitnessOfSequentialCall ==
    /\ batch # None
    /\ ~batch[1].parallel
    /\ Len(batch[1].elements) = Len(batch[1].witnesses) + 1
    /\ batch_pc = "done"
    /\ batch_result = "LengthMismatch"
    /\ joined = 0

PJVIssuing == last.op = "pjv_issue"

\* C27: an issuance asked for an empty permission list (accumulator scheme)
\* or an empty operation list (signature scheme) fails with the
\* empty-permissions error, whatever else is wrong with the request, with a
\* parent credential and without one, and returns no credential.
C27_EmptyListRefusedFirst ==
    /\ (Issuing /\ last.permissions = <<>>)
          => (last.res = "EmptyPermissions" /\ last.out = None /\ vc = last.parent)
    /\ (PJVIssuing /\ last.operations = <<>>)
          => (last.res = "EmptyPermissions" /\ last.out = None /\ vc = last.parent)

\* a signature-scheme issuance from a parent credential, for an owner with
\* no encryption key and with no operation: the empty list is what is reported
C27_Witness ==
    /\ PJVIssuing
    /\ last.parent # None
    /\ last.owner \notin encryption_dlt
    /\ last.operations = <<>>
    /\ last.res = "EmptyPermissions"

\* an accumulator-scheme issuance from a parent credential with no permission
C27_WitnessOfAccumulatorScheme ==
    /\ Issuing
    /\ last.parent # None
    /\ last.permissions = <<>>
    /\ last.res = "EmptyPermissions"
    /\ last.out = None

\* C28: in both schemes the verification of a presentation fails with the
\* unknown-presenter error whenever presenter_id has no verification key in
\* the directory, whatever the presentation is, with no layer of the chain
\* checked.
C28_UnknownPresenterFirst ==
    /\ (Verifying /\ last.presenter_id \notin verification_dlt)
          => (last.res = "UnknownPresenter" /\ last.log = <<>>)
    /\ (PJVVerifying /\ last.presenter_id \notin verification_dlt)
          => (last.res = "UnknownPresenter" /\ last.verified = 0)

\* signature scheme: a presentation whose signature is sound is refused for
\* a presenter that published no key
C28_Witness ==
    /\ PJVVerifying
    /\ last.presenter_id \notin verification_dlt
    /\ jws[1].signature.key \in verification_dlt
    /\ last.res = "UnknownPresenter"

\* accumulator scheme: the same, for a delegator not constructed yet
C28_WitnessOfAccumulatorScheme ==
    /\ Verifying
    /\ last.presenter_id \notin verification_dlt
    /\ jws[1].signature.key \in verification_dlt
    /\ last.res = "UnknownPresenter"

\* the names of the RAW_VC_D1..RAW_VC_D4 fixtures: every attribute under the
\* name of the field
FixtureShaped ==
    /\ raw_vc.credentialSubject = DOMAIN OurDelegationCredentialRename
    /\ \A i \in 1..Len(raw_vc.hierarchy) :
           raw_vc.hierarchy[i] = DOMAIN OurDelegatorRename

\* C29: a credential document shaped like the RAW_VC_D1..RAW_VC_D4
\* fixtures, with the attributes of its credentialSubject named
\* delegatee_id, accumulator_value, iat, exp, permissions,
\* metadata_witnesses, permission_witnesses and hierarchy, deserializes
\* into VerifiableCredential<OurDelegationCredential>.
C29_FixturesDeserialize ==
    (last.op = "parse_dc" /\ FixtureShaped) => last.res = "Ok"

\* the metadata witnesses of a credential are those of its delegatee_id, iat
\* and exp, in this order, for its accumulator value under the key of issuer
metadata_witnesses_ordered(issuer, credential) ==
    /\ Len(credential.metadata_witnesses) = 3
    /\ LET accumulator_value == deserialize("acc", credential.accumulator_value).v
           texts == <<credential.delegatee_id, credential.iat, credential.exp>>
       IN  \A i \in 1..3 :
               verify_accumulator_witness(accumulator_value,
                   credential.metadata_witnesses[i],
                   encode_scalar(convert_string_to_scalar(texts[i])), issuer) = "Ok"

\* C30: every credential a successful accumulator-scheme issuance returns, at
\* any depth and for any permission list the issuance accepts, has exactly
\* three metadata witnesses, of delegatee_id, iat and exp in this order, as
\* many permission witnesses as permissions, and in every entry of its
\* hierarchy as many permission witnesses as the credential has permissions.
C30_IssuedCardinalities ==
    (Issuing /\ last.res = "Ok") =>
        /\ metadata_witnesses_ordered(last.self, last.out[1].credential)
        /\ cardinality_invariant(last.out[1].credential)

\* the part of C30 that holds of every issued credential: the metadata
\* witnesses and the permission witnesses of the credential itself
C30_OwnWitnesses ==
    (Issuing /\ last.res = "Ok") =>
        /\ metadata_witnesses_ordered(last.self, last.out[1].credential)
        /\ Len(last.out[1].credential.permission_witnesses)
              = Len(last.out[1].credential.permissions)

\* entry is the entry before with nothing changed but permission witnesses
\* taken away
pruned_entry(before, entry) ==
    /\ [entry EXCEPT !.permission_witnesses = <<>>]
          = [before EXCEPT !.permission_witnesses = <<>>]
    /\ Len(entry.permission_witnesses) <= Len(before.permission_witnesses)
    /\ \A j \in 1..Len(entry.permission_witnesses) :
           contains(before.permission_witnesses, entry.permission_witnesses[j])

\* C31: a credential issued without a parent has an empty hierarchy; one
\* issued with a parent has the entries of the parent's hierarchy in the
\* same order, changed only by the pruning of permission witnesses, followed
\* by one entry built from the parent credential (id the parent's issuer,
\* delegatee_id, iat, exp, accumulator value and metadata witnesses those of
\* the parent credential); so the entries run from the root to the
\* immediate parent, each issued before the next.
C31_HierarchyExtendsParent ==
    (Issuing /\ last.res = "Ok") =>
        LET out == last.out[1].credential
        IN  IF last.parent = None THEN out.hierarchy = <<>>
            ELSE LET parent == last.parent[1].credential
                     n == Len(parent.hierarchy)
                 IN  /\ Len(out.hierarchy) = n + 1
                     /\ \A k \in 1..n : pruned_entry(parent.hierarchy[k], out.hierarchy[k])
                     /\ out.hierarchy[n + 1].id = last.parent[1].issuer
                     /\ out.hierarchy[n + 1].delegatee_id = parent.delegatee_id
                     /\ out.hierarchy[n + 1].iat = parent.iat
                     /\ out.hierarchy[n + 1].exp = parent.exp
                     /\ out.hierarchy[n + 1].accumulator_value = parent.accumulator_value
                     /\ out.hierarchy[n + 1].metadata_witnesses = parent.metadata_witnesses
                     /\ \A k \in 1..n :
                            from_str(out.hierarchy[k].iat) < from_str(out.hierarchy[k + 1].iat)
                     /\ from_str(out.hierarchy[n + 1].iat) < from_str(out.iat)

\* a credential at depth 2 whose first entry lost a permission witness
C31_Witness ==
    /\ Issuing
    /\ last.res = "Ok"
    /\ last.parent # None
    /\ Len(last.out[1].credential.hierarchy) = 2
    /\ Len(last.out[1].credential.hierarchy[1].permission_witnesses)
          < Len(last.parent[1].credential.hierarchy[1].permission_witnesses)

\* every requested permission is one of the parent's
all_granted_by_parent ==
    \A i \in 1..Len(last.permissions) :
        contains(last.parent[1].credential.permissions, last.permissions[i])

\* C32 as stated: an issuance from a parent whose permission witnesses, or
\* the permission witnesses of an entry of whose hierarchy, are not as many
\* as its permissions fails with the cardinality error.
C32_Stated ==
    (IssuingWithParent /\ ~parent_cardinality_ok) => last.res = "CardinalityMismatch"

\* C32: an issuance from such a parent never issues and never panics; it
\* fails with the cardinality error, unless a test made before the tests of
\* the cardinalities fails: the request is empty, an element is accumulated
\* twice, or a requested permission is not one of the parent's.
C32_MalformedParentRefused ==
    (IssuingWithParent /\ ~parent_cardinality_ok) =>
        /\ last.out = None
        /\ vc = last.parent
        /\ last.res \in {"EmptyPermissions", "ElementPresent",
                         "PermissionNotGranted", "CardinalityMismatch"}
        /\ last.res = "EmptyPermissions" <=> last.permissions = <<>>
        /\ last.res = "PermissionNotGranted" => ~all_granted_by_parent
        /\ (last.permissions # <<>> /\ all_granted_by_parent
              /\ last.res # "ElementPresent") => last.res = "CardinalityMismatch"

\* the parent itself is a permission witness short, and the request is one
\* that would have to be pruned
C32_Witness ==
    /\ IssuingWithParent
    /\ Len(last.parent[1].credential.permission_witnesses)
          < Len(last.parent[1].credential.permissions)
    /\ Len(last.permissions) < Len(last.parent[1].credential.permissions)
    /\ last.res = "CardinalityMismatch"

\* an entry of the parent's hierarchy has more permission witnesses than the
\* parent has permissions, the parent's own being as many as its permissions
C32_WitnessOfHierarchyEntry ==
    /\ IssuingWithParent
    /\ Len(last.parent[1].credential.permission_witnesses)
          = Len(last.parent[1].credential.permissions)
    /\ ~parent_cardinality_ok
    /\ last.res = "CardinalityMismatch"

\* C33: in a presentation of the signature scheme the signature inside
\* credentialSubject is a signature by the key of the presenting entity over
\* the serialized delegator as pruned to the disclosed operations; the outer
\* JWS is made over the presentation that carries this signature; and the
\* delegator is that of the credential, hierarchy and every other field
\* included, with only the operations pruned.
C33_PresentationResigned ==
    (PJVPresenting /\ last.res = "Ok") =>
        LET presented == from_value(jws[1].payload).v.credential
            signed == decode_signature(presented.signature.signature)
            pruned == [vc[1].credential.delegator EXCEPT !.operations =
                          kept_of(@, last.disclosed)]
        IN  /\ presented.delegator = pruned
            /\ signed.ok
            /\ signed.v.key = last.self
            /\ signed.v.msg = to_json("PJVDelegator", pruned)
            /\ jws[1].signature.key = last.self
            /\ jws[1].signature.msg[2] = jws[1].payload
            /\ from_signed_jwt(jws[1], last.self).ok

\* the subject of a credential with a parent presents it pruned
C33_Witness ==
    /\ PJVPresenting
    /\ last.res = "Ok"
    /\ last.self = vc[1].credential.delegator.sub
    /\ vc[1].credential.delegator.hierarchy # <<>>
    /\ Len(from_value(jws[1].payload).v.credential.delegator.operations)
          < Len(vc[1].credential.delegator.operations)

ParallelReturned == batch # None /\ batch[1].parallel /\ batch_pc = "done"

\* C34: when the parallel verification fails, the call returns only after
\* every thread it spawned has been joined: no worker is still running when
\* the call has returned an error.
C34_AllJoinedOnFailure ==
    (ParallelReturned /\ batch_result # "Ok") =>
        \A i \in 1..Len(threads) : threads[i] # "running"

\* C35: with parallel = true, when a worker thread has panicked the call
\* returns the worker-panic error, and never Ok, whatever the other workers
\* returned.
C35_PanicReported ==
    (ParallelReturned /\ \E i \in 1..Len(threads) : threads[i] = "Panic")
        => batch_result = "WorkerPanic"

\* the second worker panicked after the first returned an error of its own
C35_Witness ==
    /\ ParallelReturned
    /\ Len(threads) = 2
    /\ threads[1] = "MembershipFailed"
    /\ threads[2] = "Panic"
    /\ batch_result = "WorkerPanic"

\* the number of credentials nested in the hierarchy of the one presented
nesting_level == Len(PresentedChain) - 1

\* C36: the recursive verification of a presented chain nested n levels deep
\* verifies exactly 1 + n credentials when every check passes; it always
\* ends, never verifying more than 1 + n credentials: with success only
\* when it has reached the credential whose hierarchy is empty, otherwise
\* with an error.
C36_RecursionDepth ==
    PJVVerifying =>
        /\ last.verified <= 1 + nesting_level
        /\ last.res = "Ok" =>
              /\ last.verified = 1 + nesting_level
              /\ PresentedChain[1 + nesting_level].delegator.hierarchy = <<>>
        /\ last.res # "Ok" =>
              last.res \in {"UnknownPresenter", "JWSInvalid", "NotYetValid", "Expired",
                            "Inverted", "ParseError", "UnknownIssuer", "Deserialize",
                            "InvalidRoot", "JWEInvalid", "OperationNotInherited",
                            "ChainBroken"}

\* a chain nested two levels deep is accepted after three verifications
C36_Witness ==
    /\ PJVAccepted
    /\ nesting_level = 2
    /\ last.verified = 3

\* C37: the accumulator-scheme verification accepts a presentation only
\* when presenter_id, whose key verifies the JWS, is the delegatee_id of the
\* outermost credential: a registered party that is not the delegatee of a
\* credential cannot present it with success.
C37_OnlyDelegateePresents ==
    Accepted => last.presenter_id = verified_vp.credential.delegatee_id

\* C38: the signature-scheme verification accepts a chain only when every
\* credential in it names the resource_uri of its decrypted parent: a
\* delegatee granted operations on one resource cannot issue, for another
\* resource, a credential that the owner's verification accepts.
C38_ResourceInherited ==
    PJVAccepted =>
        \A k \in 1..(Len(PresentedChain) - 1) :
            PresentedChain[k].delegator.resource_uri
                = PresentedChain[k + 1].delegator.resource_uri

\* C39: in every credential issued with a parent, the j-th permission
\* witness of every hierarchy entry is the witness the issuer of that entry
\* computed for the j-th permission of the credential, in whatever order the
\* request lists permissions of the parent, each once, and also when the
\* request is as long as the parent's list.
C39_HierarchyWitnessesAligned ==
    (IssuingWithParent /\ last.res = "Ok" /\ no_duplicates(last.permissions)
       /\ no_duplicates(last.parent[1].credential.permissions)
       /\ parent_cardinality_ok) =>
        LET out == last.out[1].credential
        IN  \A k \in 1..Len(out.hierarchy) :
                /\ Len(out.hierarchy[k].permission_witnesses) = Len(out.permissions)
                /\ \A j \in 1..Len(out.permissions) :
                       valid_witness(out.hierarchy[k].accumulator_value,
                                     out.hierarchy[k].permission_witnesses[j],
                                     out.permissions[j], out.hierarchy[k].id)

\* the credential in hand was issued by someone other than the delegatee of
\* the parent it was issued from: its last hierarchy entry, made from that
\* parent, names another delegatee than the credential's issuer
IssuedByOther ==
    /\ vc # None
    /\ vc[1].credential.hierarchy # <<>>
    /\ LET h == vc[1].credential.hierarchy
       IN  h[Len(h)].delegatee_id # vc[1].issuer

\* the verification got as far as the walk over the hierarchy: the presenter
\* is registered and the signature is the presenter's
ReachedWalk == Verifying /\ last.res \notin {"UnknownPresenter", "JWSInvalid"}

\* C40: a presentation of a credential whose issuer is not the delegatee of
\* the parent it was issued from is never accepted, with parallel true or
\* false, and a verification of it that gets to the hierarchy fails the
\* chain check
C40_IssuedByOtherRejected ==
    (Verifying /\ IssuedByOther) =>
        /\ last.res # "Ok"
        /\ ReachedWalk => last.res = "ChainBroken"

C40_Witness ==
    /\ Verifying
    /\ IssuedByOther
    /\ Unaltered
    /\ last.parallel
    /\ last.res = "ChainBroken"

C40_WitnessSequential ==
    /\ Verifying
    /\ IssuedByOther
    /\ Unaltered
    /\ ~last.parallel
    /\ last.res = "ChainBroken"

====
